---- MODULE Spec2Model ----
(***************************************************************************)
(* A model of scripts/deploy_hf_spaces.py: the deployment script (main,    *)
(* HuggingFaceDeployer) and the application it generates as app.py         *)
(* (ObservabilityService, SessionManager, ICAOTools, RAGEngine,            *)
(* EnterpriseAgent and the UI handlers).                                   *)
(*                                                                         *)
(* A Python str is a sequence of one-character strings.  A character       *)
(* outside ASCII is written by its code point ("U+26A0"), so that Len is   *)
(* Python's len.  A Python value returned by a handler is a record         *)
(* [t |-> type name, v |-> value].                                         *)
(***************************************************************************)
EXTENDS Integers, Sequences, FiniteSets, TLC

VARIABLES
    op,        \* the handler of the application that ran last ("none" at start)
    arg,       \* the argument it was called with
    ret,       \* the value it returned
    exc,       \* the exception that left it ("none": it returned normally)
    calls,     \* the calls it made to web_search and to the libraries, each with what
               \* the callee did
    stdout,    \* the lines it printed
    pc,          \* the deployment script: the statement main, or the method it called, is at
    argv,        \* its command line and environment
    typed,       \* the operator's answer to the confirmation prompt (None before it)
    api_key,     \* main's local api_key
    deployer,    \* main's HuggingFaceDeployer (None before it is created)
    temp_dir,    \* whether the TemporaryDirectory of deploy_to_hf_spaces exists
    files,       \* the files in it: name -> content
    space_repo,  \* the remote URL read by deploy_to_hf_spaces (None before)
    effects,     \* what the script has done so far, in order
    exit_status, \* None while the process runs, then its exit status
    events,      \* telemetry.events
    metrics,     \* telemetry.metrics
    clock,       \* the time of day datetime.now() reads, in seconds
    logged,      \* history: the event type of every log_event call since startup
    file,        \* sessions.json
    threads,     \* the threads that call save_session
    writers,     \* each thread's call of save_session: where it is, and its locals
    saves,       \* the number of save_session calls so far
    dumps,       \* history: the calls that wrote the file, in the order of their writes;
                 \* read_at is the number of writes that came before the call's read
    rag_engine,  \* rag_engine.vector_store: None, or the Chroma store and its chunks
    agent        \* agent.model and agent.chat: None, or the model's chat session

toolVars == <<op, arg, ret, exc, calls, stdout>>

deployVars ==
    <<pc, argv, typed, api_key, deployer, temp_dir, files, space_repo, effects, exit_status>>

telemetryVars == <<events, metrics, clock, logged>>

sessionVars == <<file, threads, writers, saves, dumps>>

appVars == <<rag_engine, agent>>

vars == <<toolVars, deployVars, telemetryVars, sessionVars, appVars>>

-----------------------------------------------------------------------------
(* Bounds of the model. *)

\* The longest run of whitespace put before and after an input.
MaxPad == 1

-----------------------------------------------------------------------------
(* Python values. *)

Str(s) == [t |-> "str", v |-> s]

None == [t |-> "NoneType", v |-> <<>>]

PyInt(n) == [t |-> "int", v |-> n]

\* bool(x) for a str or None
Truthy(x) == x.t = "str" /\ x.v # <<>>

\* a or b
Or(a, b) == IF Truthy(a) THEN a ELSE b

\* str(x), as an f-string formats a str or None
Format(x) == IF x.t = "NoneType" THEN <<"N", "o", "n", "e">> ELSE x.v

Min(a, b) == IF a < b THEN a ELSE b

Max(a, b) == IF a > b THEN a ELSE b

\* s[i:j] of Python for 0 <= i, 0 <= j.
Slice(s, i, j) == SubSeq(s, i + 1, Min(j, Len(s)))

\* s[i:] of Python for 0 <= i.
SliceFrom(s, i) == SubSeq(s, i + 1, Len(s))

\* sub in s
Contains(s, sub) ==
    \E i \in 1..(Len(s) - Len(sub) + 1) : SubSeq(s, i, i + Len(sub) - 1) = sub

StartsWith(s, p) == Len(s) >= Len(p) /\ SubSeq(s, 1, Len(p)) = p

LowerLetters ==
    <<"a","b","c","d","e","f","g","h","i","j","k","l","m","n","o","p","q","r","s","t","u","v","w",
  "x","y","z">>

UpperLetters ==
    <<"A","B","C","D","E","F","G","H","I","J","K","L","M","N","O","P","Q","R","S","T","U","V","W",
  "X","Y","Z">>

\* U+00DF, the one character of the model whose upper case is two characters.
Eszett == "U+00DF"

Whitespace == {" ", "\t", "\n"}

IndexOf(c, s) == CHOOSE i \in 1..Len(s) : s[i] = c

LowerCase == {LowerLetters[i] : i \in 1..Len(LowerLetters)}

UpperCase == {UpperLetters[i] : i \in 1..Len(UpperLetters)}

IsLower(c) == c \in LowerCase

IsUpper(c) == c \in UpperCase

UpperChar(c) ==
    IF IsLower(c) THEN <<UpperLetters[IndexOf(c, LowerLetters)]>>
    ELSE IF c = Eszett THEN <<"S", "S">>
    ELSE <<c>>

LowerChar(c) ==
    IF IsUpper(c) THEN LowerLetters[IndexOf(c, UpperLetters)] ELSE c

RECURSIVE Upper(_)
\* str.upper
Upper(s) == IF s = <<>> THEN <<>> ELSE UpperChar(Head(s)) \o Upper(Tail(s))

\* str.lower
Lower(s) == [i \in 1..Len(s) |-> LowerChar(s[i])]

RECURSIVE LStrip(_)
LStrip(s) == IF s # <<>> /\ Head(s) \in Whitespace THEN LStrip(Tail(s)) ELSE s

RECURSIVE RStrip(_)
RStrip(s) ==
    IF s # <<>> /\ s[Len(s)] \in Whitespace THEN RStrip(SubSeq(s, 1, Len(s) - 1)) ELSE s

\* str.strip
Strip(s) == RStrip(LStrip(s))

\* No handler of the application has run.
NoCall ==
    /\ op = "none"
    /\ arg = <<>>
    /\ ret = None
    /\ exc = "none"
    /\ calls = <<>>
    /\ stdout = <<>>

\* The application is called one call at a time: a handler starts from
\* op = "none", and the caller takes its result before anything else is done.
ReturnToCaller ==
    /\ op # "none"
    /\ op' = "none"
    /\ arg' = <<>>
    /\ ret' = None
    /\ exc' = "none"
    /\ calls' = <<>>
    /\ stdout' = <<>>
    /\ UNCHANGED <<deployVars, telemetryVars, sessionVars, appVars>>

\* A thread of the application makes the call: one that is not in a call of
\* save_session.
CalledByThread == \E w \in threads : writers[w].pc = "idle"

-----------------------------------------------------------------------------
(* ObservabilityService and the UI handlers that use it. *)

\* The most log_event calls of a run.
MaxLogCalls == 3

LOG_TAIL == 15

SecondsPerDay == 24 * 3600

\* The clock at startup: one second before midnight.
StartOfClock == SecondsPerDay - 1

Digit(n) == <<"0", "1", "2", "3", "4", "5", "6", "7", "8", "9">>[n + 1]

RECURSIVE Decimal(_)
\* str(n) for an int n >= 0
Decimal(n) == IF n < 10 THEN <<Digit(n)>> ELSE Append(Decimal(n \div 10), Digit(n % 10))

TwoDigits(n) == <<Digit(n \div 10), Digit(n % 10)>>

\* datetime.now().strftime("%H:%M:%S") at t seconds after midnight
StrfTime(t) ==
    TwoDigits(t \div 3600) \o <<":">> \o TwoDigits((t \div 60) % 60)
        \o <<":">> \o TwoDigits(t % 60)

ERROR == <<"E","R","R","O","R">>

REQUEST == <<"R","E","Q","U","E","S","T">>

TOOL_USE == <<"T","O","O","L","_","U","S","E">>

EventTypes == {ERROR, REQUEST, TOOL_USE, <<"I","N","F","O">>}

EventDetails == {<<"x">>}

TelemetryEvent(timestamp, event_type, details) ==
    [timestamp |-> timestamp, event_type |-> event_type, details |-> details]

InitTelemetryService ==
    /\ events = <<>>
    /\ metrics = [requests |-> 0, tool_usage |-> 0, errors |-> 0]
    /\ clock = StartOfClock
    /\ logged = <<>>

\* self.events[-n:]
Tail_(s, n) == SubSeq(s, Max(1, Len(s) - n + 1), Len(s))

RECURSIVE Join(_, _)
\* sep.join(lines)
Join(sep, lines) ==
    IF lines = <<>> THEN <<>>
    ELSE IF Len(lines) = 1 THEN lines[1]
    ELSE lines[1] \o sep \o Join(sep, Tail(lines))

LogLine(e) ==
    <<"[">> \o e.timestamp \o <<"]", " ", "[">> \o e.event_type \o <<"]", " ">> \o e.details

get_logs == Join(<<"\n">>, [i \in 1..Len(Tail_(events, LOG_TAIL)) |->
                               LogLine(Tail_(events, LOG_TAIL)[i])])

\* get_metrics returning self.metrics itself.
get_metrics_alias == [t |-> "dict", v |-> metrics, object |-> "telemetry.metrics"]

\* self.metrics.copy(): a new dict with the same items.
get_metrics == [t |-> "dict", v |-> metrics, object |-> "copy"]

\* json.dumps(metrics, indent=2)
JsonDumpsMetrics(m) ==
    <<"{","\n"," "," ","\"","r","e","q","u","e","s","t","s","\"",":"," ">> \o Decimal(m.requests)
        \o <<",","\n"," "," ","\"","t","o","o","l","_","u","s","a","g","e","\"",":"," ">> \o Decimal(m.tool_usage)
        \o <<",","\n"," "," ","\"","e","r","r","o","r","s","\"",":"," ">> \o Decimal(m.errors) \o <<"\n","}">>

MODEL_NAME == <<"g","e","m","i","n","i","-","2",".","5","-","f","l","a","s","h">>

PERSISTENCE_DIR == <<"/","t","m","p","/","n","a","n","s","c","_","d","a","t","a">>

StatusHead ==
    <<"\n"," "," "," "," "," "," "," "," "," "," "," "," "," "," "," "," "," "," "," "," ","<",
      "d","i","v"," ","s","t","y","l","e","=","\"","b","a","c","k","g","r","o","u","n","d","-",
      "c","o","l","o","r",":"," ","#","f","0","f","0","f","0",";"," ","p","a","d","d","i","n",
      "g",":"," ","1","0","p","x",";"," ","b","o","r","d","e","r","-","r","a","d","i","u","s",
      ":"," ","5","p","x",";"," ","m","a","r","g","i","n",":"," ","1","0","p","x"," ","0",";",
      "\"",">","\n"," "," "," "," "," "," "," "," "," "," "," "," "," "," "," "," "," "," "," ",
      " ","<","s","t","r","o","n","g",">","S","y","s","t","e","m"," ","S","t","a","t","u","s",
      ":","<","/","s","t","r","o","n","g",">","<","b","r",">","\n"," "," "," "," "," "," "," ",
      " "," "," "," "," "," "," "," "," "," "," "," "," ","U+2022"," ","R","e","q","u","e","s",
      "t","s",":"," ">>

StatusToolUsage ==
    <<"<","b","r",">","\n"," "," "," "," "," "," "," "," "," "," "," "," "," "," "," "," "," ",
      " "," "," ","U+2022"," ","T","o","o","l"," ","U","s","a","g","e",":"," ">>

StatusErrors ==
    <<"<","b","r",">","\n"," "," "," "," "," "," "," "," "," "," "," "," "," "," "," "," "," ",
      " "," "," ","U+2022"," ","E","r","r","o","r","s",":"," ">>

StatusModel ==
    <<"<","b","r",">","\n"," "," "," "," "," "," "," "," "," "," "," "," "," "," "," "," "," ",
      " "," "," ","U+2022"," ","M","o","d","e","l",":"," ">>

StatusPersistence ==
    <<"<","b","r",">","\n"," "," "," "," "," "," "," "," "," "," "," "," "," "," "," "," "," ",
      " "," "," ","U+2022"," ","P","e","r","s","i","s","t","e","n","c","e",":"," ">>

StatusTail ==
    <<"\n"," "," "," "," "," "," "," "," "," "," "," "," "," "," "," "," "," "," "," "," ","<",
      "/","d","i","v",">","\n"," "," "," "," "," "," "," "," "," "," "," "," "," "," "," "," ",
      " "," "," "," ">>

\* The clock reads the same second as at the last call, or the next one.
ClockReadings == {clock, (clock + 1) % SecondsPerDay}

\* log_event with the new event put first.
LogEventPrepend ==
    \E event_type \in EventTypes, details \in EventDetails, t \in ClockReadings :
        /\ op = "none"
        /\ Len(logged) < MaxLogCalls
        /\ clock' = t
        /\ events' = <<TelemetryEvent(StrfTime(t), event_type, details)>> \o events
        /\ metrics' =
               IF event_type = ERROR
               THEN [metrics EXCEPT !.errors = @ + 1]
               ELSE IF event_type = REQUEST
               THEN [metrics EXCEPT !.requests = @ + 1]
               ELSE IF event_type = TOOL_USE
               THEN [metrics EXCEPT !.tool_usage = @ + 1]
               ELSE metrics
        /\ logged' = Append(logged, event_type)
        /\ op' = "log_event"
        /\ arg' = <<event_type, details>>
        /\ ret' = None
        /\ exc' = "none"
        /\ calls' = <<>>
        /\ stdout' = <<>>
        /\ UNCHANGED <<deployVars, sessionVars, appVars>>

LogEvent ==
    \E event_type \in EventTypes, details \in EventDetails, t \in ClockReadings :
        /\ op = "none"
        /\ Len(logged) < MaxLogCalls
        /\ clock' = t
        /\ events' = Append(events, TelemetryEvent(StrfTime(t), event_type, details))
        /\ metrics' =
               IF event_type = ERROR
               THEN [metrics EXCEPT !.errors = @ + 1]
               ELSE IF event_type = REQUEST
               THEN [metrics EXCEPT !.requests = @ + 1]
               ELSE IF event_type = TOOL_USE
               THEN [metrics EXCEPT !.tool_usage = @ + 1]
               ELSE metrics
        /\ logged' = Append(logged, event_type)
        /\ op' = "log_event"
        /\ arg' = <<event_type, details>>
        /\ ret' = None
        /\ exc' = "none"
        /\ calls' = <<>>
        /\ stdout' = <<>>
        /\ UNCHANGED <<deployVars, sessionVars, appVars>>

GetLogs ==
    /\ op = "none"
    /\ op' = "get_logs"
    /\ arg' = <<>>
    /\ ret' = Str(get_logs)
    /\ exc' = "none"
    /\ calls' = <<>>
    /\ stdout' = <<>>
    /\ UNCHANGED <<deployVars, telemetryVars, sessionVars, appVars>>

GetMetrics ==
    /\ op = "none"
    /\ op' = "get_metrics"
    /\ arg' = <<>>
    /\ ret' = get_metrics
    /\ exc' = "none"
    /\ calls' = <<>>
    /\ stdout' = <<>>
    /\ UNCHANGED <<deployVars, telemetryVars, sessionVars, appVars>>

\* The counts a caller writes into a dict.
MutatedCounts == {0, 99}

\* The caller of get_metrics changes the dict it was given: d[key] = n.  The
\* service's dict changes with it when the two are one object.
MutateReturned ==
    \E key \in DOMAIN metrics, n \in MutatedCounts :
        /\ op = "get_metrics"
        /\ ret.v[key] # n
        /\ ret' = [ret EXCEPT !.v[key] = n]
        /\ metrics' = IF ret.object = "telemetry.metrics" THEN ret'.v ELSE metrics
        /\ UNCHANGED <<op, arg, exc, calls, stdout, events, clock, logged>>
        /\ UNCHANGED <<deployVars, sessionVars, appVars>>

GetStatsWrapper ==
    /\ op = "none"
    /\ op' = "get_stats_wrapper"
    /\ arg' = <<>>
    /\ ret' = [t |-> "tuple",
               v |-> <<Str(JsonDumpsMetrics(get_metrics.v)), Str(get_logs)>>]
    /\ exc' = "none"
    /\ calls' = <<>>
    /\ stdout' = <<>>
    /\ UNCHANGED <<deployVars, telemetryVars, sessionVars, appVars>>

ClearLogsWrapper ==
    /\ op = "none"
    /\ events' = <<>>
    /\ op' = "clear_logs_wrapper"
    /\ arg' = <<>>
    /\ ret' = Str(<<"L","o","g","s"," ","c","l","e","a","r","e","d"," ","s","u","c","c","e","s","s","f","u","l","l","y",".">>)
    /\ exc' = "none"
    /\ calls' = <<>>
    /\ stdout' = <<>>
    /\ UNCHANGED <<deployVars, metrics, clock, logged, sessionVars, appVars>>

UpdateStatus ==
    /\ op = "none"
    /\ op' = "update_status"
    /\ arg' = <<>>
    /\ ret' = Str(StatusHead \o Decimal(get_metrics.v.requests)
                  \o StatusToolUsage \o Decimal(get_metrics.v.tool_usage)
                  \o StatusErrors \o Decimal(get_metrics.v.errors)
                  \o StatusModel \o MODEL_NAME
                  \o StatusPersistence \o PERSISTENCE_DIR \o StatusTail)
    /\ exc' = "none"
    /\ calls' = <<>>
    /\ stdout' = <<>>
    /\ UNCHANGED <<deployVars, telemetryVars, sessionVars, appVars>>

-----------------------------------------------------------------------------
(* SessionManager.  sessions.json is missing, empty (just opened for        *)
(* writing), not JSON (a write that stopped half-way, or one written over   *)
(* another), or a JSON object: session id -> [timestamp, history].          *)
(* A timestamp is kept as the clock reading its ISO-8601 string stands for; *)
(* it has microseconds, and a call reads a later time than the call before. *)

\* The most save_session calls of a run.
MaxSaves == 2

Writers == {"w1", "w2"}

NoFile == [t |-> "missing", v |-> <<>>]

EmptyFile == [t |-> "empty", v |-> <<>>]

NotJson == [t |-> "not json", v |-> <<>>]

JsonObject(d) == [t |-> "json", v |-> d]

EmptyDict == [k \in {} |-> <<>>]

SessionEntry(timestamp, history) == [timestamp |-> timestamp, history |-> history]

\* data[key] = value
DictSet(d, key, value) ==
    [k \in DOMAIN d \cup {key} |-> IF k = key THEN value ELSE d[k]]

SessionIds == {<<"s","1">>, <<"s","2">>}

\* A session stored by an earlier run of the application.
OldSessionId == <<"s","0">>

Message(role, content) == [role |-> role, content |-> content]

Histories ==
    {<<Message("user", "hi")>>,
     <<Message("user", "hi"), Message("assistant", "hello")>>}

\* sessions.json when the application starts.
StartFiles ==
    {NoFile, NotJson,
     JsonObject(DictSet(EmptyDict, OldSessionId,
                        SessionEntry(0, <<Message("user", "old")>>)))}

\* The lines the except clauses print, up to the text of the exception.
CouldNotRead ==
    <<"W","a","r","n","i","n","g",":"," ","C","o","u","l","d"," ","n","o","t"," ","r","e","a",
      "d"," ","s","e","s","s","i","o","n"," ","f","i","l","e",":"," ">>

CouldNotSave ==
    <<"W","a","r","n","i","n","g",":"," ","C","o","u","l","d"," ","n","o","t"," ","s","a","v",
      "e"," ","s","e","s","s","i","o","n",":"," ">>

CouldNotLoad ==
    <<"W","a","r","n","i","n","g",":"," ","C","o","u","l","d"," ","n","o","t"," ","l","o","a",
      "d"," ","s","e","s","s","i","o","n",":"," ">>

\* A thread that is not in save_session.
IdleWriter ==
    [pc |-> "idle", session_id |-> <<>>, history |-> <<>>, data |-> EmptyDict,
     read_at |-> 0, warnings |-> <<>>]

InitSessionManager(callers) ==
    /\ file \in StartFiles
    /\ threads = callers
    /\ writers = [w \in Writers |-> IdleWriter]
    /\ saves = 0
    /\ dumps = <<>>

\* SessionManager is not used.
NoSessions ==
    /\ file = NoFile
    /\ threads = {}
    /\ writers = [w \in Writers |-> IdleWriter]
    /\ saves = 0
    /\ dumps = <<>>

\* save_session is called: data = {} and the os.path.exists test.
SaveSessionBegin ==
    \E w \in threads, session_id \in SessionIds, history \in Histories :
        /\ op = "none"
        /\ writers[w].pc = "idle"
        /\ saves < MaxSaves
        /\ saves' = saves + 1
        /\ writers' = [writers EXCEPT ![w] =
               [pc |-> IF file.t # "missing" THEN "read" ELSE "assign",
                session_id |-> session_id, history |-> history,
                data |-> EmptyDict, read_at |-> Len(dumps), warnings |-> <<>>]]
        /\ UNCHANGED <<file, threads, dumps, clock>>
        /\ UNCHANGED <<toolVars, deployVars, events, metrics, logged, appVars>>

\* A save_session that does not take the sessions already in the file.
SaveSessionReadNothing ==
    \E w \in threads, io_ok \in BOOLEAN :
        /\ op = "none"
        /\ writers[w].pc = "read"
        /\ writers' = [writers EXCEPT ![w] =
               IF io_ok /\ file.t = "json"
               THEN [@ EXCEPT !.pc = "assign", !.read_at = Len(dumps)]
               ELSE [@ EXCEPT !.pc = "assign", !.read_at = Len(dumps),
                              !.warnings = Append(@, CouldNotRead)]]
        /\ UNCHANGED <<file, threads, saves, dumps, clock>>
        /\ UNCHANGED <<toolVars, deployVars, events, metrics, logged, appVars>>

\* with open(self.filepath, 'r') as f: data = json.load(f), and its except.
SaveSessionRead ==
    \E w \in threads, io_ok \in BOOLEAN :
        /\ op = "none"
        /\ writers[w].pc = "read"
        /\ writers' = [writers EXCEPT ![w] =
               IF io_ok /\ file.t = "json"
               THEN [@ EXCEPT !.pc = "assign", !.data = file.v,
                              !.read_at = Len(dumps)]
               ELSE [@ EXCEPT !.pc = "assign", !.read_at = Len(dumps),
                              !.warnings = Append(@, CouldNotRead)]]
        /\ UNCHANGED <<file, threads, saves, dumps, clock>>
        /\ UNCHANGED <<toolVars, deployVars, events, metrics, logged, appVars>>

\* A save_session that takes the sessions from the file as it is when the
\* file is written, not as it was when this call read it.
SaveSessionOpenMerging ==
    \E w \in threads, io_ok \in BOOLEAN :
        /\ op = "none"
        /\ writers[w].pc = "assign"
        /\ clock' = clock + 1
        /\ LET me == writers[w]
               now == clock + 1
               latest == IF file.t = "json" THEN file.v ELSE me.data
               data == DictSet(latest, me.session_id,
                               SessionEntry(now, me.history))
           IN  IF io_ok
               THEN /\ file' = EmptyFile
                    /\ writers' = [writers EXCEPT ![w] =
                           [@ EXCEPT !.pc = "dump", !.data = data]]
               ELSE /\ file' = file
                    /\ writers' = [writers EXCEPT ![w] =
                           [@ EXCEPT !.pc = "idle", !.data = data,
                                     !.warnings = Append(@, CouldNotSave)]]
        /\ UNCHANGED <<threads, saves, dumps>>
        /\ UNCHANGED <<toolVars, deployVars, events, metrics, logged, appVars>>

\* data[session_id] = {...}, then open(self.filepath, 'w'), which empties the
\* file, or fails and leaves it as it is.
SaveSessionOpen ==
    \E w \in threads, io_ok \in BOOLEAN :
        /\ op = "none"
        /\ writers[w].pc = "assign"
        /\ clock' = clock + 1
        /\ LET me == writers[w]
               now == clock + 1
               data == DictSet(me.data, me.session_id,
                               SessionEntry(now, me.history))
           IN  IF io_ok
               THEN /\ file' = EmptyFile
                    /\ writers' = [writers EXCEPT ![w] =
                           [@ EXCEPT !.pc = "dump", !.data = data]]
               ELSE /\ file' = file
                    /\ writers' = [writers EXCEPT ![w] =
                           [@ EXCEPT !.pc = "idle", !.data = data,
                                     !.warnings = Append(@, CouldNotSave)]]
        /\ UNCHANGED <<threads, saves, dumps>>
        /\ UNCHANGED <<toolVars, deployVars, events, metrics, logged, appVars>>

\* What the file holds after data is written from its start and the file is
\* closed: data, when the file is still empty; data or, when data is the
\* shorter, data followed by the end of what another thread has written since.
Written(data) ==
    IF file.t = "empty" THEN {JsonObject(data)} ELSE {JsonObject(data), NotJson}

\* json.dump(data, f, indent=2) and the end of the with block, or its except.
SaveSessionDump ==
    \E w \in threads, io_ok \in BOOLEAN :
        /\ op = "none"
        /\ writers[w].pc = "dump"
        /\ LET me == writers[w] IN
           IF io_ok
           THEN /\ file' \in Written(me.data)
                /\ dumps' = Append(dumps, [w |-> w, session_id |-> me.session_id,
                                           entry |-> me.data[me.session_id],
                                           read_at |-> me.read_at,
                                           warnings |-> me.warnings])
                /\ writers' = [writers EXCEPT ![w] = [@ EXCEPT !.pc = "idle"]]
           ELSE /\ file' = NotJson
                /\ dumps' = dumps
                /\ writers' = [writers EXCEPT ![w] =
                       [@ EXCEPT !.pc = "idle",
                                 !.warnings = Append(@, CouldNotSave)]]
        /\ UNCHANGED <<threads, saves, clock>>
        /\ UNCHANGED <<toolVars, deployVars, events, metrics, logged, appVars>>

List(l) == [t |-> "list", v |-> l]

\* data.get(session_id, {}).get("history", [])
HistoryIn(data, session_id) ==
    IF session_id \in DOMAIN data THEN data[session_id].history ELSE <<>>

\* A load_session whose try does not cover the read of the file.
LoadSessionUnguarded ==
    \E session_id \in SessionIds \cup {OldSessionId}, io_ok \in BOOLEAN :
        /\ op = "none"
        /\ CalledByThread
        /\ op' = "load_session"
        /\ arg' = session_id
        /\ calls' = <<>>
        /\ stdout' = <<>>
        /\ IF file.t = "missing"
           THEN ret' = List(<<>>) /\ exc' = "none"
           ELSE IF io_ok /\ file.t = "json"
           THEN ret' = List(HistoryIn(file.v, session_id)) /\ exc' = "none"
           ELSE ret' = None /\ exc' = "Exception"
        /\ UNCHANGED <<deployVars, telemetryVars, sessionVars, appVars>>

LoadSession ==
    \E session_id \in SessionIds \cup {OldSessionId}, io_ok \in BOOLEAN :
        /\ op = "none"
        /\ CalledByThread
        /\ op' = "load_session"
        /\ arg' = session_id
        /\ exc' = "none"
        /\ calls' = <<>>
        /\ IF file.t = "missing"
           THEN ret' = List(<<>>) /\ stdout' = <<>>
           ELSE IF io_ok /\ file.t = "json"
           THEN ret' = List(HistoryIn(file.v, session_id)) /\ stdout' = <<>>
           ELSE ret' = List(<<>>) /\ stdout' = <<CouldNotLoad>>
        /\ UNCHANGED <<deployVars, telemetryVars, sessionVars, appVars>>

-----------------------------------------------------------------------------
(* The deployment script: main and HuggingFaceDeployer. *)

\* What the script did: a print, a prompt read, the temporary directory made, a
\* file written or a git command run, and whether it succeeded.
Effect(kind, what, ok) == [kind |-> kind, what |-> what, ok |-> ok]

Printed(what) == Effect("print", what, TRUE)

KeyValues == {None, Str(<<>>), Str(<<"A","I","z","a">>)}

SpaceNames == {None, Str(<<>>), Str(<<"n","a","n","s","c">>)}

Usernames == {None, Str(<<"m","e">>)}

\* parse_args' result and os.environ; valid is FALSE for a command line that
\* argparse rejects.
CommandLines ==
    [valid : BOOLEAN, api_key : KeyValues, GOOGLE_API_KEY : KeyValues,
     space_name : SpaceNames, username : Usernames, interactive : BOOLEAN]

\* What the operator types at a prompt; EndOfInput is a closed stdin.
EndOfInput == [t |-> "EOFError", v |-> <<>>]

ConfirmAnswers ==
    {Str(s) : s \in {<<"y">>, <<"Y">>, <<" ","Y","\t">>, <<"y","e","s">>, <<"n">>, <<>>}}

SpaceRepoAnswers == {Str(<<"h","t","t","p","s",":","/","/","h","u","g","g","i","n","g","f","a","c","e",".","c","o","/","s","p","a","c","e","s","/","m","e","/","n","a","n","s","c">>), Str(<<>>)}

SpacesUrl == <<"h","t","t","p","s",":","/","/","h","u","g","g","i","n","g","f","a","c","e",".","c","o","/","s","p","a","c","e","s","/">>

HuggingFaceDeployer(key, space_name, username) ==
    [api_key |-> key,
     space_name |-> space_name,
     username |-> username,
     space_url |-> IF Truthy(username)
                   THEN Str(SpacesUrl \o Format(username) \o <<"/">> \o Format(space_name))
                   ELSE None]

NoFiles == [name \in {} |-> ""]

\* The deployment script is not running (the application is what is modelled).
NoDeployment ==
    /\ pc = "off"
    /\ argv = [valid |-> FALSE, api_key |-> None, GOOGLE_API_KEY |-> None,
               space_name |-> None, username |-> None, interactive |-> FALSE]
    /\ typed = None
    /\ api_key = None
    /\ deployer = None
    /\ temp_dir = FALSE
    /\ files = NoFiles
    /\ space_repo = None
    /\ effects = <<>>
    /\ exit_status = None

\* sys.exit(status), or main returning (status 0).
Exit(status) ==
    /\ pc' = "exited"
    /\ exit_status' = PyInt(status)

\* An exception nothing catches: it leaves the with block of deploy_to_hf_spaces,
\* which removes the temporary directory, then main; the interpreter prints the
\* traceback and exits with status 1.
Uncaught(failed) ==
    /\ effects' = effects \o failed
    /\ temp_dir' = FALSE
    /\ files' = NoFiles
    /\ Exit(1)

\* main without the exit on a missing key.
MainNoExit ==
    /\ pc = "main"
    /\ argv.valid
    /\ api_key' = Or(argv.api_key, argv.GOOGLE_API_KEY)
    /\ effects' = IF Truthy(api_key') THEN effects
                  ELSE Append(effects, Printed("api_key_not_found"))
    /\ deployer' = HuggingFaceDeployer(api_key', argv.space_name, argv.username)
    /\ pc' = IF argv.interactive THEN "run_interactive_setup" ELSE "deploy_to_hf_spaces"
    /\ UNCHANGED <<argv, typed, temp_dir, files, space_repo, exit_status>>
    /\ UNCHANGED <<toolVars, telemetryVars, sessionVars, appVars>>

\* main, up to its call of the deployer.
Main ==
    /\ pc = "main"
    /\ IF ~argv.valid
       THEN \* parser.parse_args() prints the usage and exits with status 2
            /\ effects' = Append(effects, Printed("usage"))
            /\ Exit(2)
            /\ UNCHANGED <<api_key, deployer>>
       ELSE /\ api_key' = Or(argv.api_key, argv.GOOGLE_API_KEY)
            /\ IF ~Truthy(api_key')
               THEN /\ effects' = Append(effects, Printed("api_key_not_found"))
                    /\ Exit(1)
                    /\ UNCHANGED deployer
               ELSE /\ deployer' =
                          HuggingFaceDeployer(api_key', argv.space_name, argv.username)
                    /\ pc' = IF argv.interactive THEN "run_interactive_setup"
                             ELSE "deploy_to_hf_spaces"
                    /\ UNCHANGED <<effects, exit_status>>
    /\ UNCHANGED <<argv, typed, temp_dir, files, space_repo>>
    /\ UNCHANGED <<toolVars, telemetryVars, sessionVars, appVars>>

\* run_interactive_setup, up to the confirmation prompt.
AskSpaceName ==
    /\ pc = "run_interactive_setup"
    /\ IF Truthy(deployer.space_name)
       THEN /\ effects' = effects \o <<Printed("setup_banner"), Printed("summary")>>
            /\ pc' = "confirm"
            /\ UNCHANGED <<deployer, temp_dir, files, exit_status>>
       ELSE \E answer \in (SpaceNames \ {None}) \cup {EndOfInput} :
                IF answer = EndOfInput
                THEN /\ Uncaught(<<Printed("setup_banner"),
                                   Effect("prompt", "space_name", FALSE)>>)
                     /\ UNCHANGED deployer
                ELSE /\ deployer' = [deployer EXCEPT !.space_name = answer]
                     /\ effects' = effects \o <<Printed("setup_banner"),
                                                Effect("prompt", "space_name", TRUE),
                                                Printed("summary")>>
                     /\ pc' = "confirm"
                     /\ UNCHANGED <<temp_dir, files, exit_status>>
    /\ UNCHANGED <<argv, typed, api_key, space_repo>>
    /\ UNCHANGED <<toolVars, telemetryVars, sessionVars, appVars>>

\* A prompt that takes every answer beginning with y for a yes.
ConfirmsPrefix(answer) == StartsWith(Strip(Lower(answer.v)), <<"y">>)

\* The answer that lets the deployment start.
Confirms(answer) == Strip(Lower(answer.v)) = <<"y">>

\* run_interactive_setup from the confirmation prompt on.
Confirm ==
    /\ pc = "confirm"
    /\ \E answer \in ConfirmAnswers \cup {EndOfInput} :
           IF answer = EndOfInput
           THEN /\ Uncaught(<<Effect("prompt", "confirm", FALSE)>>)
                /\ UNCHANGED typed
           ELSE /\ typed' = answer
                /\ IF ~Confirms(answer)
                   THEN /\ effects' = effects \o <<Effect("prompt", "confirm", TRUE),
                                                   Printed("cancelled")>>
                        /\ Exit(0)
                        /\ UNCHANGED <<temp_dir, files>>
                   ELSE /\ effects' = Append(effects, Effect("prompt", "confirm", TRUE))
                        /\ pc' = "deploy_to_hf_spaces"
                        /\ UNCHANGED <<temp_dir, files, exit_status>>
    /\ UNCHANGED <<argv, api_key, deployer, space_repo>>
    /\ UNCHANGED <<toolVars, telemetryVars, sessionVars, appVars>>

\* deploy_to_hf_spaces entering its with block.
CreateTempDir ==
    /\ pc = "deploy_to_hf_spaces"
    /\ \E ok \in BOOLEAN :
           IF ok
           THEN /\ effects' = effects \o <<Printed("starting"),
                                           Effect("tmpdir", "create", TRUE),
                                           Printed("created_temp_dir")>>
                /\ temp_dir' = TRUE
                /\ pc' = "write_app_py"
                /\ UNCHANGED <<files, exit_status>>
           ELSE Uncaught(<<Printed("starting"), Effect("tmpdir", "create", FALSE)>>)
    /\ UNCHANGED <<argv, typed, api_key, deployer, space_repo>>
    /\ UNCHANGED <<toolVars, telemetryVars, sessionVars, appVars>>

\* create_deployment_files: the file each statement writes, its content and the
\* statement that follows.
DeploymentFile ==
    [write_app_py |-> [name |-> "app.py", content |-> "app_py_content",
                       next |-> "write_requirements_txt"],
     write_requirements_txt |-> [name |-> "requirements.txt",
                                 content |-> "requirements_txt",
                                 next |-> "write_readme_md"],
     write_readme_md |-> [name |-> "README.md", content |-> "readme_md",
                          next |-> "git_init"]]

\* One with open(...) as f: f.write(...) of create_deployment_files.
WriteFile ==
    /\ pc \in DOMAIN DeploymentFile
    /\ LET f == DeploymentFile[pc] IN
       \E ok \in BOOLEAN :
           IF ok
           THEN /\ files' = (f.name :> f.content) @@ files
                /\ effects' = Append(effects, Effect("file", f.name, TRUE))
                /\ pc' = f.next
                /\ UNCHANGED <<temp_dir, exit_status>>
           ELSE Uncaught(<<Effect("file", f.name, FALSE)>>)
    /\ UNCHANGED <<argv, typed, api_key, deployer, space_repo>>
    /\ UNCHANGED <<toolVars, telemetryVars, sessionVars, appVars>>

\* The git commands with the commit run before the add.
GitCommandCommitFirst ==
    [git_init |-> [cmd |-> "init", next |-> "git_checkout"],
     git_checkout |-> [cmd |-> "checkout -b main", next |-> "git_commit"],
     git_commit |-> [cmd |-> "commit", next |-> "git_add"],
     git_add |-> [cmd |-> "add .", next |-> "input_space_repo"],
     git_remote_add |-> [cmd |-> "remote add origin", next |-> "git_push"],
     git_push |-> [cmd |-> "push -u origin main --force", next |-> "print_next_steps"]]

\* The subprocess.run calls of deploy_to_hf_spaces: the git command each runs
\* and the statement that follows.
GitCommand ==
    [git_init |-> [cmd |-> "init", next |-> "git_checkout"],
     git_checkout |-> [cmd |-> "checkout -b main", next |-> "git_add"],
     git_add |-> [cmd |-> "add .", next |-> "git_commit"],
     git_commit |-> [cmd |-> "commit", next |-> "input_space_repo"],
     git_remote_add |-> [cmd |-> "remote add origin", next |-> "git_push"],
     git_push |-> [cmd |-> "push -u origin main --force", next |-> "print_next_steps"]]

\* subprocess.run without check=True: a failing command is not noticed.
RunGitUnchecked ==
    /\ pc \in DOMAIN GitCommand
    /\ \E ok \in BOOLEAN :
           /\ effects' = Append(effects, Effect("git", GitCommand[pc].cmd, ok))
           /\ pc' = GitCommand[pc].next
    /\ UNCHANGED <<argv, typed, api_key, deployer, space_repo, temp_dir, files, exit_status>>
    /\ UNCHANGED <<toolVars, telemetryVars, sessionVars, appVars>>

\* One subprocess.run([...], cwd=temp_dir, check=True): the command exits with
\* status 0, or it does not (or git cannot be run) and subprocess.run raises.
RunGit ==
    /\ pc \in DOMAIN GitCommand
    /\ \E ok \in BOOLEAN :
           IF ok
           THEN /\ effects' = Append(effects, Effect("git", GitCommand[pc].cmd, TRUE))
                /\ pc' = GitCommand[pc].next
                /\ UNCHANGED <<temp_dir, files, exit_status>>
           ELSE Uncaught(<<Effect("git", GitCommand[pc].cmd, FALSE)>>)
    /\ UNCHANGED <<argv, typed, api_key, deployer, space_repo>>
    /\ UNCHANGED <<toolVars, telemetryVars, sessionVars, appVars>>

\* The instructions to create the Space, then input(...) of the remote URL.
InputSpaceRepo ==
    /\ pc = "input_space_repo"
    /\ \E answer \in SpaceRepoAnswers \cup {EndOfInput} :
           IF answer = EndOfInput
           THEN /\ Uncaught(<<Printed("create_space_instructions"),
                              Effect("prompt", "space_repo", FALSE)>>)
                /\ UNCHANGED space_repo
           ELSE /\ space_repo' = answer
                /\ effects' = effects \o <<Printed("create_space_instructions"),
                                           Effect("prompt", "space_repo", TRUE)>>
                /\ pc' = "git_remote_add"
                /\ UNCHANGED <<temp_dir, files, exit_status>>
    /\ UNCHANGED <<argv, typed, api_key, deployer>>
    /\ UNCHANGED <<toolVars, telemetryVars, sessionVars, appVars>>

\* The closing prints of deploy_to_hf_spaces; the with block ends and removes
\* the temporary directory; main returns.
PrintNextSteps ==
    /\ pc = "print_next_steps"
    /\ effects' = effects \o <<Printed("files_pushed"), Printed("next_steps")>>
    /\ temp_dir' = FALSE
    /\ files' = NoFiles
    /\ Exit(0)
    /\ UNCHANGED <<argv, typed, api_key, deployer, space_repo>>
    /\ UNCHANGED <<toolVars, telemetryVars, sessionVars, appVars>>

-----------------------------------------------------------------------------
(* ICAOTools *)

ICAO_LEN == 4

AFTN_LEN == 8

MIN_USEFUL_LEN == 10

FOUND_LIMIT == 800

SEARCH_LIMIT == 1000

AIRPORT_DB ==
    (<<"H","E","C","A">> :>
     <<"C","a","i","r","o"," ","I","n","t","l"," ","(","E","g","y","p","t",")">>) @@
    (<<"H","E","B","A">> :>
     <<"B","o","r","g"," ","E","l"," ","A","r","a","b"," ","(","E","g","y","p","t",")">>) @@
    (<<"O","J","A","A">> :>
     <<"Q","u","e","e","n"," ","A","l","i","a"," ","(","J","o","r","d","a","n",")">>) @@
    (<<"E","G","L","L">> :>
     <<"L","o","n","d","o","n"," ","H","e","a","t","h","r","o","w"," ","(","U","K",")">>) @@
    (<<"L","F","P","G">> :>
     <<"P","a","r","i","s"," ","C","D","G"," ","(","F","r","a","n","c","e",")">>) @@
    (<<"K","J","F","K">> :>
     <<"J","F","K"," ","N","e","w"," ","Y","o","r","k"," ","(","U","S","A",")">>) @@
    (<<"K","O","R","D">> :>
     <<"O","'","H","a","r","e"," ","C","h","i","c","a","g","o"," ","(","U","S","A",")">>) @@
    (<<"E","H","A","M">> :>
     <<"A","m","s","t","e","r","d","a","m"," ","S","c","h","i","p","h","o","l"," ","(","N","e","t",
  "h","e","r","l","a","n","d","s",")">>) @@
    (<<"E","D","D","F">> :>
     <<"F","r","a","n","k","f","u","r","t"," ","(","G","e","r","m","a","n","y",")">>) @@
    (<<"Z","B","A","A">> :>
     <<"B","e","i","j","i","n","g"," ","C","a","p","i","t","a","l"," ","(","C","h","i","n","a",")">>) @@
    (<<"R","J","T","T">> :>
     <<"T","o","k","y","o"," ","H","a","n","e","d","a"," ","(","J","a","p","a","n",")">>) @@
    (<<"Y","S","S","Y">> :>
     <<"S","y","d","n","e","y"," ","(","A","u","s","t","r","a","l","i","a",")">>) @@
    (<<"F","A","O","R">> :>
     <<"O","R"," ","T","a","m","b","o"," ","J","o","h","a","n","n","e","s","b","u","r","g"," ","(",
  "S","o","u","t","h"," ","A","f","r","i","c","a",")">>) @@
    (<<"O","M","D","B">> :>
     <<"D","u","b","a","i"," ","(","U","A","E",")">>) @@
    (<<"V","H","H","H">> :>
     <<"H","o","n","g"," ","K","o","n","g"," ","(","C","h","i","n","a",")">>)

prmd_map ==
    (<<"H","E">> :> <<"E","G","Y","P","T">>) @@
    (<<"O","J">> :> <<"J","O","R","D","A","N">>) @@
    (<<"E","G">> :> <<"U","K">>) @@
    (<<"L","F">> :> <<"F","R","A","N","C","E">>) @@
    (<<"K">> :> <<"U","S","A">>) @@
    (<<"E","H">> :> <<"N","E","T","H","E","R","L","A","N","D","S">>) @@
    (<<"E","D">> :> <<"G","E","R","M","A","N","Y">>) @@
    (<<"Z","B">> :> <<"C","H","I","N","A">>) @@
    (<<"R","J">> :> <<"J","A","P","A","N">>) @@
    (<<"Y","S">> :> <<"A","U","S","T","R","A","L","I","A">>) @@
    (<<"F","A">> :> <<"S","O","U","T","H"," ","A","F","R","I","C","A">>) @@
    (<<"O","M">> :> <<"U","A","E">>) @@
    (<<"V","H">> :> <<"H","O","N","G"," ","K","O","N","G">>)

LookupLenErrorHead ==
    <<"E","r","r","o","r",":"," ","I","C","A","O"," ","c","o","d","e"," ","m","u","s","t"," ",
      "b","e"," ","e","x","a","c","t","l","y"," ","4"," ","c","h","a","r","a","c","t","e","r",
      "s","."," ","G","o","t",":"," ","'">>

Quote ==
    <<"'">>

SearchQueryHead ==
    <<"I","C","A","O"," ","a","i","r","p","o","r","t"," ","c","o","d","e"," ">>

SearchQueryTail ==
    <<" ","l","o","c","a","t","i","o","n"," ","a","i","r","p","o","r","t"," ","n","a","m","e">>

FoundHead ==
    <<"U+26A0","U+FE0F"," ","I","C","A","O"," ","c","o","d","e"," ","'">>

FoundTail ==
    <<"'"," ","n","o","t"," ","f","o","u","n","d"," ","i","n"," ","l","o","c","a","l"," ","d",
      "a","t","a","b","a","s","e",".","\n","U+1F50E"," ","S","e","a","r","c","h","i","n","g",
      " ","o","n","l","i","n","e",".",".",".","\n","\n","U+1F4CD"," ","F","o","u","n","d"," ",
      "r","e","s","u","l","t",":","\n">>

NotFoundHead ==
    <<"U+274C"," ","I","C","A","O"," ","c","o","d","e"," ","'">>

NotUsefulTail ==
    <<"'"," ","n","o","t"," ","f","o","u","n","d"," ","i","n"," ","l","o","c","a","l"," ","d",
      "a","t","a","b","a","s","e",".","\n","U+1F50D"," ","W","e","b"," ","s","e","a","r","c",
      "h"," ","d","i","d"," ","n","o","t"," ","r","e","t","u","r","n"," ","u","s","e","f","u",
      "l"," ","r","e","s","u","l","t","s",".","\n","U+1F4A1"," ","P","l","e","a","s","e"," ",
      "v","e","r","i","f","y"," ","t","h","e"," ","I","C","A","O"," ","c","o","d","e"," ","a",
      "n","d"," ","t","r","y"," ","a","g","a","i","n",".">>

SearchFailedMid ==
    <<"'"," ","n","o","t"," ","f","o","u","n","d"," ","i","n"," ","l","o","c","a","l"," ","d",
      "a","t","a","b","a","s","e",".","\n","U+1F50D"," ","W","e","b"," ","s","e","a","r","c",
      "h"," ","f","a","i","l","e","d",":"," ">>

SearchFailedTail ==
    <<"\n","U+1F4A1"," ","P","l","e","a","s","e"," ","v","e","r","i","f","y"," ","t","h","e",
      " ","I","C","A","O"," ","c","o","d","e"," ","o","r"," ","c","h","e","c","k"," ","y","o",
      "u","r"," ","i","n","t","e","r","n","e","t"," ","c","o","n","n","e","c","t","i","o","n",
      ".">>

ErrorWord ==
    <<"E","r","r","o","r">>

AddressLenError ==
    <<"E","r","r","o","r",":"," ","A","d","d","r","e","s","s"," ","m","u","s","t"," ","b","e",
      " ","e","x","a","c","t","l","y"," ","8"," ","c","h","a","r","a","c","t","e","r","s",".">>

X400Head ==
    <<"/","C","=","X","X","/","A","=","I","C","A","O","/","P","=">>

X400Org ==
    <<"/","O","=">>

X400Unit ==
    <<"/","O","U","1","=">>

Slash ==
    <<"/">>

UNKNOWN ==
    <<"U","N","K","N","O","W","N">>

SearchUnavailableHead ==
    <<"S","e","a","r","c","h"," ","u","n","a","v","a","i","l","a","b","l","e",":"," ">>

LookupLenError(code) == LookupLenErrorHead \o code \o Quote

SearchQuery(code) == SearchQueryHead \o code \o SearchQueryTail

FoundMessage(code, search_result) ==
    FoundHead \o code \o FoundTail \o Slice(search_result, 0, FOUND_LIMIT)

NotUsefulMessage(code) == NotFoundHead \o code \o NotUsefulTail

SearchFailedMessage(code, e) ==
    NotFoundHead \o code \o SearchFailedMid \o e \o SearchFailedTail

\* What DuckDuckGoSearchRun().run does on one call: it raises an exception with
\* message text, or returns text.
ToolRaises(msg) == [raises |-> TRUE, text |-> msg]

ToolReturns(res) == [raises |-> FALSE, text |-> res]

\* A value or the exception that left the callee.
Returned(v) == [raised |-> FALSE, msg |-> <<>>, v |-> v]

Raised(msg) == [raised |-> TRUE, msg |-> msg, v |-> <<>>]

web_search(query, tool) ==
    IF tool.raises
    THEN Returned(SearchUnavailableHead \o tool.text)
    ELSE Returned(Slice(tool.text, 0, SEARCH_LIMIT))

WebSearchCall(query, tool, r) ==
    [fn |-> "web_search", query |-> query, tool |-> tool, out |-> r]

\* lookup_airport without the look-up in AIRPORT_DB: every code is searched for.
lookup_airport_no_db(icao_code, tool) ==
    LET code == Strip(Upper(icao_code))
        search_query == SearchQuery(code)
        r == web_search(search_query, tool)
    IN  IF Len(code) # ICAO_LEN
        THEN [ret |-> LookupLenError(code), calls |-> <<>>]
        ELSE [ret |-> NotUsefulMessage(code),
              calls |-> <<WebSearchCall(search_query, tool, r)>>]

\* lookup_airport checking the length of its argument instead of the length of
\* the normalised code.
lookup_airport_raw_len(icao_code, tool) ==
    LET code == Strip(Upper(icao_code))
        search_query == SearchQuery(code)
        r == web_search(search_query, tool)
    IN  IF Len(icao_code) # ICAO_LEN
        THEN [ret |-> LookupLenError(code), calls |-> <<>>]
        ELSE IF code \in DOMAIN AIRPORT_DB
        THEN [ret |-> AIRPORT_DB[code], calls |-> <<>>]
        ELSE [ret |-> NotUsefulMessage(code),
              calls |-> <<WebSearchCall(search_query, tool, r)>>]

lookup_airport(icao_code, tool) ==
    LET code == Strip(Upper(icao_code)) IN
    IF Len(code) # ICAO_LEN
    THEN [ret |-> LookupLenError(code), calls |-> <<>>]
    ELSE IF code \in DOMAIN AIRPORT_DB /\ AIRPORT_DB[code] # <<>>
    THEN [ret |-> AIRPORT_DB[code], calls |-> <<>>]
    ELSE LET search_query == SearchQuery(code)
             r == web_search(search_query, tool)
             search_result == r.v
             made == <<WebSearchCall(search_query, tool, r)>>
         IN  IF r.raised
             THEN [ret |-> SearchFailedMessage(code, r.msg), calls |-> made]
             ELSE IF /\ search_result # <<>>
                     /\ ~Contains(search_result, ErrorWord)
                     /\ Len(search_result) > MIN_USEFUL_LEN
             THEN [ret |-> FoundMessage(code, search_result), calls |-> made]
             ELSE [ret |-> NotUsefulMessage(code), calls |-> made]

PrmdOf(prefix) == IF prefix \in DOMAIN prmd_map THEN prmd_map[prefix] ELSE UNKNOWN

\* bridge_aftn_to_amhs looking up the first letter alone.
bridge_one_letter_prefix(aftn_address) ==
    LET addr == Strip(Upper(aftn_address)) IN
    IF Len(addr) # AFTN_LEN
    THEN AddressLenError
    ELSE X400Head \o PrmdOf(Slice(addr, 0, 1)) \o X400Org \o Slice(addr, 0, 4)
             \o X400Unit \o SliceFrom(addr, 4) \o Slash

bridge_aftn_to_amhs(aftn_address) ==
    LET addr == Strip(Upper(aftn_address)) IN
    IF Len(addr) # AFTN_LEN
    THEN AddressLenError
    ELSE LET prefix == Slice(addr, 0, 2)
             prmd == PrmdOf(prefix)
         IN  X400Head \o prmd \o X400Org \o Slice(addr, 0, 4)
                 \o X400Unit \o SliceFrom(addr, 4) \o Slash

-----------------------------------------------------------------------------
(* The inputs and the environment of the tools. *)

RECURSIVE SeqsUpTo(_, _)
\* Every sequence over S of length at most n.
SeqsUpTo(S, n) ==
    IF n = 0 THEN {<<>>}
    ELSE LET shorter == SeqsUpTo(S, n - 1)
         IN  shorter \cup {Append(s, c) : s \in shorter, c \in S}

Pads == SeqsUpTo({" ", "\t"}, MaxPad)

Padded(cores) == {l \o c \o r : l \in Pads, c \in cores, r \in Pads}

LookupCores ==
    DOMAIN AIRPORT_DB \cup
    {<<"o","j","a","a">>,
     <<"H","e","c","a">>,
     <<"Z","Z","Z","Z">>,
     <<"K","X","Y","Z">>,
     <<"z","z","z","z">>,
     <<"A","B","C">>,
     <<"A","B","C","D","E">>,
     <<>>,
     <<"O","J"," ","A","A">>,
     <<"H","E","C","A","Y","F","Y","X">>} \cup
    {<<Eszett, "A", "B">>, <<Eszett, "A", "B", "C">>}

LookupInputs == Padded(LookupCores)

\* The letters of the keys of prmd_map.
PrefixLetters ==
    UNION {{key[i] : i \in 1..Len(key)} : key \in DOMAIN prmd_map}

AftnTails ==
    {<<"C","A","Y","F","Y","X">>,
     <<"J","F","K","Z","T","Z">>}

\* 8-character addresses of upper-case letters.
UpperAddresses ==
    {<<a, b>> \o t : a \in PrefixLetters, b \in PrefixLetters, t \in AftnTails}

AftnCores ==
    UpperAddresses \cup
    {<<"h","e","c","a","y","f","y","x">>,
     <<"H","E","C","A","Y","F","Y">>,
     <<"H","E","C","A","Y","F","Y","X","X">>,
     <<>>,
     <<"H","E","C","A">>,
     <<"H","E","1","2","Y","F","Y","X">>,
     <<"O","J","A","A"," ","Y","F","Y">>} \cup
    {<<Eszett>> \o <<"E","C","A","Y","F","Y">>}

AftnInputs == Padded(AftnCores)

\* A result longer than SEARCH_LIMIT whose only "Error" lies beyond the limit.
LongResult ==
    [i \in 1..(SEARCH_LIMIT + Len(ErrorWord)) |->
        IF i > SEARCH_LIMIT THEN ErrorWord[i - SEARCH_LIMIT] ELSE "x"]

SearchTool ==
    {ToolRaises(m) : m \in
        {<<"t","i","m","e","o","u","t">>,
         <<"H","T","T","P"," ","E","r","r","o","r"," ","4","2","9">>}} \cup
    {ToolReturns(t) : t \in
        {<<>>,
         <<"N","o"," ","r","e","s","u","l","t","s">>,
         <<"C","a","i","r","o",","," ","E","g","y","p","t">>,
         <<"E","r","r","o","r",":"," ","r","a","t","e"," ","l","i","m","i","t"," ","e","x","c","e","e",
  "d","e","d">>} \cup {LongResult}}

-----------------------------------------------------------------------------
(* The tools as operations of the application. *)

LookupAirport ==
    \E icao_code \in LookupInputs, tool \in SearchTool :
        LET r == lookup_airport(icao_code, tool) IN
        /\ op = "none"
        /\ op' = "lookup_airport"
        /\ arg' = icao_code
        /\ ret' = Str(r.ret)
        /\ exc' = "none"
        /\ calls' = r.calls
        /\ stdout' = <<>>
        /\ UNCHANGED <<deployVars, telemetryVars, sessionVars, appVars>>

BridgeAftnToAmhs ==
    \E aftn_address \in AftnInputs :
        /\ op = "none"
        /\ op' = "bridge_aftn_to_amhs"
        /\ arg' = aftn_address
        /\ ret' = Str(bridge_aftn_to_amhs(aftn_address))
        /\ exc' = "none"
        /\ calls' = <<>>
        /\ stdout' = <<>>
        /\ UNCHANGED <<deployVars, telemetryVars, sessionVars, appVars>>


-----------------------------------------------------------------------------
(* RAGEngine and EnterpriseAgent.  What the vector store, the PDF loader,    *)
(* the search tool and the model do when they are called is the              *)
(* environment's choice: each call returns or raises.                        *)

\* The most chunks the vector store comes to hold.
MaxChunks == 2

\* similarity_search(question, k=3)
SEARCH_K == 3

\* d.page_content[:500]
CHUNK_LIMIT == 500

Chroma(chunks) == [t |-> "Chroma", chunks |-> chunks]

ChatSession == [t |-> "ChatSession", v |-> <<>>]

\* RAGEngine.__init__ and _init_db, and EnterpriseAgent.__init__: a
\* constructor that raises leaves None.
InitApp ==
    /\ rag_engine \in {None, Chroma(0)}
    /\ agent \in {None, ChatSession}

\* RAGEngine and EnterpriseAgent are not used.
NoApp ==
    /\ rag_engine = None
    /\ agent = None

\* A call of an external library, and what the library did.
ExternalCall(fn, input, outcome) == [fn |-> fn, input |-> input, outcome |-> outcome]

SdkRaises(msg) == [raises |-> TRUE, text |-> msg, docs |-> <<>>, n |-> 0]

\* similarity_search returns docs
SearchReturns(docs) == [raises |-> FALSE, text |-> <<>>, docs |-> docs, n |-> Len(docs)]

\* loader.load() and split_documents give n chunks
LoaderReturns(n) == [raises |-> FALSE, text |-> <<>>, docs |-> <<>>, n |-> n]

\* add_documents returns; send_message_async returns a response with this text
SdkReturns(text) == [raises |-> FALSE, text |-> text, docs |-> <<>>, n |-> 0]

Document(page_content) == [page_content |-> page_content]

DocumentChunkHead ==
    <<"D","o","c","u","m","e","n","t"," ","C","h","u","n","k"," ">>

Ellipsis ==
    <<".",".",".">>

\* f"Document Chunk {i+1}:\n{d.page_content[:500]}..."
DocumentChunk(i, d) ==
    DocumentChunkHead \o Decimal(i + 1) \o <<":", "\n">>
        \o Slice(d.page_content, 0, CHUNK_LIMIT) \o Ellipsis

\* RAGEngine.query: what it returns and the calls it makes.
query(vector_store, question, store) ==
    IF vector_store = None
    THEN [ret |-> <<>>, calls |-> <<>>]
    ELSE LET made == <<ExternalCall("similarity_search", question, store)>> IN
         IF store.raises
         THEN [ret |-> <<>>, calls |-> made]
         ELSE [ret |-> Join(<<"\n", "\n">>,
                            [i \in 1..Len(store.docs) |->
                                DocumentChunk(i - 1, store.docs[i])]),
               calls |-> made]

VectorStoreNotReady ==
    <<"U+274C"," ","V","e","c","t","o","r"," ","s","t","o","r","e"," ","n","o","t"," ","r","e",
      "a","d","y","."," ","P","l","e","a","s","e"," ","c","h","e","c","k"," ","e","m","b","e",
      "d","d","i","n","g","s"," ","c","o","n","f","i","g","u","r","a","t","i","o","n",".">>

ErrorIngestingHead ==
    <<"U+274C"," ","E","r","r","o","r"," ","i","n","g","e","s","t","i","n","g"," ","d","o","c",
      "u","m","e","n","t",":"," ">>

IngestedHead ==
    <<"U+2705"," ","I","n","g","e","s","t","e","d"," ">>

IngestedTail ==
    <<" ","d","o","c","u","m","e","n","t"," ","c","h","u","n","k","s"," ","i","n","t","o"," ",
      "v","e","c","t","o","r"," ","s","t","o","r","e",".">>

\* RAGEngine.ingest_pdf: what it returns, the calls it makes and the vector
\* store it leaves.
ingest_pdf(vector_store, file_path, loader, store) ==
    IF vector_store = None
    THEN [ret |-> VectorStoreNotReady, calls |-> <<>>, vector_store |-> vector_store]
    ELSE LET load == <<ExternalCall("PyPDFLoader.load", file_path, loader)>>
             add == <<ExternalCall("add_documents", loader.n, store)>>
         IN  IF loader.raises
             THEN [ret |-> ErrorIngestingHead \o loader.text, calls |-> load,
                   vector_store |-> vector_store]
             ELSE IF store.raises
             THEN [ret |-> ErrorIngestingHead \o store.text, calls |-> load \o add,
                   vector_store |-> vector_store]
             ELSE [ret |-> IngestedHead \o Decimal(loader.n) \o IngestedTail,
                   calls |-> load \o add,
                   vector_store |-> Chroma(vector_store.chunks + loader.n)]

-----------------------------------------------------------------------------
(* EnterpriseAgent *)

SystemPrompt ==
    <<"\n"," "," "," "," "," "," "," "," ","Y","o","u"," ","a","r","e"," ","t","h","e"," ","N",
      "A","N","S","C"," ","I","n","t","e","l","l","i","g","e","n","t"," ","O","p","e","r","a",
      "t","i","o","n","s"," ","C","o","n","s","o","l","e"," ","A","s","s","i","s","t","a","n",
      "t",".","\n","\n"," "," "," "," "," "," "," "," ","O","P","E","R","A","T","I","O","N","A",
      "L"," ","P","R","O","T","O","C","O","L",":","\n"," "," "," "," "," "," "," "," ","1",".",
      " ","D","E","F","I","N","I","T","I","O","N","S",":"," ","I","f"," ","t","h","e"," ","u",
      "s","e","r"," ","a","s","k","s"," ","\"","W","h","a","t"," ","i","s",".",".",".","\"",",",
      " ","a","n","s","w","e","r"," ","f","r","o","m"," ","y","o","u","r"," ","i","n","t","e",
      "r","n","a","l"," ","k","n","o","w","l","e","d","g","e",".","\n"," "," "," "," "," "," ",
      " "," "," "," "," ","I","f"," ","u","n","s","u","r","e",","," ","u","s","e"," ","t","h",
      "e"," ","'","w","e","b","_","s","e","a","r","c","h","'"," ","t","o","o","l",".","\n"," ",
      " "," "," "," "," "," "," ","2","."," ","C","O","D","E","S",":"," ","I","f"," ","a","n",
      " ","I","C","A","O"," ","c","o","d","e"," ","(","4"," ","l","e","t","t","e","r","s",")",
      " ","o","r"," ","A","F","T","N"," ","a","d","d","r","e","s","s"," ","(","8"," ","l","e",
      "t","t","e","r","s",")"," ","i","s"," ","d","e","t","e","c","t","e","d",",","\n"," "," ",
      " "," "," "," "," "," "," "," "," ","A","L","W","A","Y","S"," ","u","s","e"," ","'","l",
      "o","o","k","u","p","_","a","i","r","p","o","r","t","'"," ","o","r"," ","'","b","r","i",
      "d","g","e","_","a","f","t","n","_","t","o","_","a","m","h","s","'"," ","t","o","o","l",
      "s"," ","a","u","t","o","m","a","t","i","c","a","l","l","y",".","\n"," "," "," "," "," ",
      " "," "," ","3","."," ","P","R","O","C","E","D","U","R","E","S",":"," ","I","f"," ","a",
      "s","k","e","d"," ","a","b","o","u","t"," ","r","u","l","e","s","/","r","e","g","s",",",
      " ","r","e","f","e","r"," ","t","o"," ","t","h","e"," ","R","A","G"," ","C","o","n","t",
      "e","x","t"," ","p","r","o","v","i","d","e","d",".","\n","\n"," "," "," "," "," "," "," ",
      " ","B","E","H","A","V","I","O","R","A","L"," ","G","U","I","D","E","L","I","N","E","S",
      ":","\n"," "," "," "," "," "," "," "," ","-"," ","B","e"," ","p","r","o","f","e","s","s",
      "i","o","n","a","l",","," ","c","o","n","c","i","s","e",","," ","a","n","d"," ","h","e",
      "l","p","f","u","l","\n"," "," "," "," "," "," "," "," ","-"," ","A","l","w","a","y","s",
      " ","p","r","o","v","i","d","e"," ","a","c","c","u","r","a","t","e"," ","i","n","f","o",
      "r","m","a","t","i","o","n","\n"," "," "," "," "," "," "," "," ","-"," ","U","s","e"," ",
      "t","o","o","l","s"," ","p","r","o","a","c","t","i","v","e","l","y"," ","w","h","e","n",
      " ","a","p","p","r","o","p","r","i","a","t","e","\n"," "," "," "," "," "," "," "," ","-",
      " ","M","a","i","n","t","a","i","n"," ","c","o","n","t","e","x","t"," ","t","h","r","o",
      "u","g","h","o","u","t"," ","t","h","e"," ","c","o","n","v","e","r","s","a","t","i","o",
      "n","\n","\n"," "," "," "," "," "," "," "," ","D","O","M","A","I","N"," ","E","X","P","E",
      "R","T","I","S","E",":","\n"," "," "," "," "," "," "," "," ","-"," ","C","i","v","i","l",
      " ","A","v","i","a","t","i","o","n"," ","T","e","l","e","c","o","m","m","u","n","i","c",
      "a","t","i","o","n","s","\n"," "," "," "," "," "," "," "," ","-"," ","I","C","A","O"," ",
      "S","t","a","n","d","a","r","d","s"," ","a","n","d"," ","P","r","o","c","e","d","u","r",
      "e","s","\n"," "," "," "," "," "," "," "," ","-"," ","A","F","T","N"," ","a","n","d"," ",
      "A","M","H","S"," ","O","p","e","r","a","t","i","o","n","s","\n"," "," "," "," "," "," ",
      " "," ","-"," ","A","i","r"," ","T","r","a","f","f","i","c"," ","M","a","n","a","g","e",
      "m","e","n","t","\n"," "," "," "," "," "," "," "," ","-"," ","A","v","i","a","t","i","o",
      "n"," ","S","a","f","e","t","y"," ","a","n","d"," ","S","e","c","u","r","i","t","y","\n",
      " "," "," "," "," "," "," "," ">>

_get_system_prompt == SystemPrompt

Digits == {"0", "1", "2", "3", "4", "5", "6", "7", "8", "9"}

\* \w of a regular expression on str
IsWordChar(c) == IsLower(c) \/ IsUpper(c) \/ c \in Digits \/ c = "_" \/ c = Eszett

\* \b[A-Z]{n}\b matches at s[i]
MatchAt(s, n, i) ==
    /\ i + n - 1 <= Len(s)
    /\ \A j \in i..(i + n - 1) : IsUpper(s[j])
    /\ i = 1 \/ ~IsWordChar(s[i - 1])
    /\ i + n - 1 = Len(s) \/ ~IsWordChar(s[i + n])

\* re.findall(r'\b[A-Z]{n}\b', s): the matches from left to right.  A match is
\* a whole word, so no two matches overlap.
FindAll(s, n) ==
    LET starts == {i \in 1..Len(s) : MatchAt(s, n, i)} IN
    [k \in 1..Cardinality(starts) |->
        LET start == CHOOSE i \in starts : Cardinality({j \in starts : j < i}) = k - 1
        IN  SubSeq(s, start, start + n - 1)]

IcaoCodeHead ==
    <<"I","C","A","O"," ","C","o","d","e"," ">>

AftnCodeHead ==
    <<"A","F","T","N"," ","C","o","d","e"," ">>

ToolResultsHead ==
    <<"T","o","o","l"," ","R","e","s","u","l","t","s",":","\n">>

UserMessageHead ==
    <<"\n","\n","U","s","e","r"," ","M","e","s","s","a","g","e",":"," ">>

RECURSIVE Concat(_)
\* The lists of a list, one after the other.
Concat(lists) == IF lists = <<>> THEN <<>> ELSE Head(lists) \o Concat(Tail(lists))

\* EnterpriseAgent._detect_and_call_tools: what it returns and the calls of
\* web_search that lookup_airport makes for it.
_detect_and_call_tools(message, tool) ==
    LET icao_codes == FindAll(message, ICAO_LEN)
        aftn_codes == FindAll(message, AFTN_LEN)
        looked_up == [i \in 1..Len(icao_codes) |-> lookup_airport(icao_codes[i], tool)]
        tool_results ==
            [i \in 1..Len(icao_codes) |->
                IcaoCodeHead \o icao_codes[i] \o <<":", " ">> \o looked_up[i].ret]
            \o [i \in 1..Len(aftn_codes) |->
                AftnCodeHead \o aftn_codes[i] \o <<":", " ">>
                    \o bridge_aftn_to_amhs(aftn_codes[i])]
        made == Concat([i \in 1..Len(icao_codes) |-> looked_up[i].calls])
    IN  IF tool_results # <<>>
        THEN [ret |-> ToolResultsHead \o Join(<<"\n">>, tool_results)
                          \o UserMessageHead \o message,
              calls |-> made]
        ELSE [ret |-> message, calls |-> made]

ProvideMessage ==
    <<"P","l","e","a","s","e"," ","p","r","o","v","i","d","e"," ","a"," ","m","e","s","s","a",
      "g","e"," ","t","o"," ","p","r","o","c","e","s","s",".">>

ModelNotAvailable ==
    <<"U+26A0","U+FE0F"," ","S","y","s","t","e","m"," ","W","a","r","n","i","n","g",":"," ","A",
      "I"," ","m","o","d","e","l"," ","n","o","t"," ","a","v","a","i","l","a","b","l","e",".",
      " ","T","h","i","s"," ","c","o","u","l","d"," ","b","e"," ","d","u","e"," ","t","o",":",
      "\n","1","."," ","A","P","I"," ","k","e","y"," ","c","o","n","f","i","g","u","r","a","t",
      "i","o","n"," ","i","s","s","u","e","s","\n","2","."," ","Q","u","o","t","a"," ","l","i",
      "m","i","t","s"," ","e","x","c","e","e","d","e","d","\n","3","."," ","S","e","r","v","i",
      "c","e"," ","c","o","n","n","e","c","t","i","v","i","t","y"," ","p","r","o","b","l","e",
      "m","s","\n","\n","H","o","w","e","v","e","r",","," ","y","o","u"," ","c","a","n"," ","s",
      "t","i","l","l"," ","u","s","e",":","\n","U+2022"," ","A","i","r","p","o","r","t"," ","l",
      "o","o","k","u","p","s"," ","(","I","C","A","O"," ","c","o","d","e","s",")","\n","U+2022",
      " ","A","F","T","N"," ","a","d","d","r","e","s","s"," ","c","o","n","v","e","r","s","i",
      "o","n","s","\n","U+2022"," ","B","a","t","c","h"," ","p","r","o","c","e","s","s","i","n",
      "g"," ","t","o","o","l","s","\n","U+2022"," ","S","y","s","t","e","m"," ","t","e","l","e",
      "m","e","t","r","y"," ","m","o","n","i","t","o","r","i","n","g","\n","\n","P","l","e","a",
      "s","e"," ","c","h","e","c","k"," ","y","o","u","r"," ","A","P","I"," ","c","o","n","f",
      "i","g","u","r","a","t","i","o","n"," ","o","r"," ","t","r","y"," ","a","g","a","i","n",
      " ","l","a","t","e","r",".">>

ReferenceInfoHead ==
    <<"R","e","f","e","r","e","n","c","e"," ","I","n","f","o"," ","f","r","o","m"," ","M","a",
      "n","u","a","l","s",":","\n">>

UserQuestionHead ==
    <<"\n","\n","U","s","e","r"," ","Q","u","e","s","t","i","o","n",":"," ">>

SystemErrorHead ==
    <<"U+26A0","U+FE0F"," ","S","y","s","t","e","m"," ","E","r","r","o","r",":"," ">>

RagKeywords ==
    {<<"p","r","o","c","e","d","u","r","e">>, <<"r","u","l","e">>, <<"r","e","g">>,
     <<"m","a","n","u","a","l">>, <<"d","o","c">>, <<"g","u","i","d","e","l","i","n","e">>,
     <<"p","r","o","t","o","c","o","l">>, <<"s","t","a","n","d","a","r","d">>,
     <<"r","e","g","u","l","a","t","i","o","n">>, <<"p","o","l","i","c","y">>,
     <<"d","i","r","e","c","t","i","v","e">>}

\* any(keyword in message.lower() for keyword in [...])
AsksRag(message) == \E keyword \in RagKeywords : Contains(Lower(message), keyword)

\* EnterpriseAgent.process_message: what it returns and the calls it makes.
\* store, tool and model are what the vector store, the search tool and the
\* model do when it calls them.
process_message(chat, vector_store, message, store, tool, model) ==
    IF message = <<>> \/ Strip(message) = <<>>
    THEN [ret |-> ProvideMessage, calls |-> <<>>]
    ELSE IF chat = None
    THEN [ret |-> ModelNotAvailable, calls |-> <<>>]
    ELSE LET found == IF AsksRag(message) THEN query(vector_store, message, store)
                      ELSE [ret |-> <<>>, calls |-> <<>>]
             rag_context == found.ret
             asked == IF rag_context # <<>>
                      THEN ReferenceInfoHead \o rag_context \o UserQuestionHead \o message
                      ELSE message
             enhanced == _detect_and_call_tools(asked, tool)
             full_message == _get_system_prompt \o <<"\n", "\n">> \o enhanced.ret
             made == found.calls \o enhanced.calls
                         \o <<ExternalCall("send_message_async", full_message, model)>>
         IN  IF model.raises
             THEN [ret |-> SystemErrorHead \o model.text, calls |-> made]
             ELSE [ret |-> model.text, calls |-> made]

-----------------------------------------------------------------------------
(* The inputs and the environment of RAGEngine and EnterpriseAgent, and     *)
(* their methods as operations of the application.                          *)

\* A page longer than CHUNK_LIMIT.
LongPage == [i \in 1..(CHUNK_LIMIT + 1) |-> IF i > CHUNK_LIMIT THEN "!" ELSE "p"]

\* The chunks the vector store finds, nearest first.
NearestChunks ==
    <<Document(<<"R","u","l","e"," ","1",":"," ","H","E","C","A">>), Document(LongPage), Document(<<>>), Document(<<"R","u","l","e"," ","4">>)>>

\* similarity_search raises, or returns at most k chunks of those stored.
StoreSearches(vector_store) ==
    {SdkRaises(<<"c","o","n","n","e","c","t","i","o","n"," ","r","e","s","e","t">>)} \cup
    {SearchReturns(SubSeq(NearestChunks, 1, m)) :
        m \in 0..Min(SEARCH_K, IF vector_store = None THEN 0 ELSE vector_store.chunks)}

Loaders == {SdkRaises(<<"n","o","t"," ","a"," ","P","D","F">>)} \cup {LoaderReturns(n) : n \in 0..2}

StoreAdds == {SdkRaises(<<"d","i","s","k"," ","f","u","l","l">>), SdkReturns(<<>>)}

Models == {SdkRaises(<<"4","2","9"," ","q","u","o","t","a"," ","e","x","c","e","e","d","e","d">>), SdkReturns(<<"H","e","l","l","o",".">>)}

AppSearchTool ==
    {ToolRaises(<<"t","i","m","e","o","u","t">>), ToolReturns(<<"E","x","a","m","p","l","e"," ","F","i","e","l","d",","," ","N","o","w","h","e","r","e">>)}

Queries == {<<"H","E","C","A"," ","a","i","r","p","o","r","t">>}

\* What a library does tells runs apart when it is called; when it is not, one
\* outcome stands for all.
IfCalled(called, outcomes) == IF called THEN outcomes ELSE {CHOOSE o \in outcomes : TRUE}

Questions == {<<"r","u","n","w","a","y"," ","r","u","l","e">>}

FilePaths == {<<"m","a","n","u","a","l",".","p","d","f">>}

Messages ==
    {<<>>, <<" ">>, <<"h","i">>, <<"R","u","l","e"," ","f","o","r"," ","H","E","C","A","?">>, <<"K","X","Y","Z"," ","t","o"," ","H","E","C","A","Y","F","Y","X">>}

WebSearch ==
    \E q \in Queries, tool \in SearchTool :
        LET r == web_search(q, tool) IN
        /\ op = "none"
        /\ CalledByThread
        /\ op' = "web_search"
        /\ arg' = q
        /\ ret' = Str(r.v)
        /\ exc' = "none"
        /\ calls' = <<WebSearchCall(q, tool, r)>>
        /\ stdout' = <<>>
        /\ UNCHANGED <<deployVars, telemetryVars, sessionVars, appVars>>

RagQuery ==
    \E question \in Questions, store \in StoreSearches(rag_engine) :
        LET r == query(rag_engine, question, store) IN
        /\ op = "none"
        /\ CalledByThread
        /\ op' = "query"
        /\ arg' = question
        /\ ret' = Str(r.ret)
        /\ exc' = "none"
        /\ calls' = r.calls
        /\ stdout' = <<>>
        /\ UNCHANGED <<deployVars, telemetryVars, sessionVars, appVars>>

IngestPdf ==
    \E file_path \in FilePaths, loader \in Loaders, store \in StoreAdds :
        LET r == ingest_pdf(rag_engine, file_path, loader, store) IN
        /\ op = "none"
        /\ CalledByThread
        /\ r.vector_store # None => r.vector_store.chunks <= MaxChunks
        /\ op' = "ingest_pdf"
        /\ arg' = file_path
        /\ ret' = Str(r.ret)
        /\ exc' = "none"
        /\ calls' = r.calls
        /\ stdout' = <<>>
        /\ rag_engine' = r.vector_store
        /\ UNCHANGED <<deployVars, telemetryVars, sessionVars, agent>>

ProcessMessage ==
    \E message \in Messages :
    \E store \in IfCalled(agent # None /\ AsksRag(message), StoreSearches(rag_engine)),
       tool \in IfCalled(agent # None /\ Strip(message) # <<>>, AppSearchTool),
       model \in IfCalled(agent # None /\ Strip(message) # <<>>, Models) :
        LET r == process_message(agent, rag_engine, message, store, tool, model) IN
        /\ op = "none"
        /\ CalledByThread
        /\ op' = "process_message"
        /\ arg' = message
        /\ ret' = Str(r.ret)
        /\ exc' = "none"
        /\ calls' = r.calls
        /\ stdout' = <<>>
        /\ UNCHANGED <<deployVars, telemetryVars, sessionVars, appVars>>

-----------------------------------------------------------------------------
(* The specifications.  Each runs one part of the program and leaves the    *)
(* variables of the other parts as they are at start.                      *)

InitTools == NoCall /\ NoDeployment /\ InitTelemetryService /\ NoSessions /\ NoApp

NextTools == LookupAirport \/ BridgeAftnToAmhs \/ ReturnToCaller

SpecTools == InitTools /\ [][NextTools]_vars

InitDeploy ==
    /\ NoCall
    /\ InitTelemetryService
    /\ NoSessions
    /\ NoApp
    /\ pc = "main"
    /\ argv \in CommandLines
    /\ typed = None
    /\ api_key = None
    /\ deployer = None
    /\ temp_dir = FALSE
    /\ files = NoFiles
    /\ space_repo = None
    /\ effects = <<>>
    /\ exit_status = None

NextDeploy ==
    \/ Main
    \/ AskSpaceName
    \/ Confirm
    \/ CreateTempDir
    \/ WriteFile
    \/ RunGit
    \/ InputSpaceRepo
    \/ PrintNextSteps

SpecDeploy == InitDeploy /\ [][NextDeploy]_vars

InitTelemetry == NoCall /\ NoDeployment /\ InitTelemetryService /\ NoSessions /\ NoApp

NextTelemetry ==
    \/ LogEvent
    \/ GetLogs
    \/ GetMetrics
    \/ MutateReturned
    \/ GetStatsWrapper
    \/ ClearLogsWrapper
    \/ UpdateStatus
    \/ ReturnToCaller

SpecTelemetry == InitTelemetry /\ [][NextTelemetry]_vars

InitSession ==
    NoCall /\ NoDeployment /\ InitTelemetryService /\ InitSessionManager(Writers) /\ NoApp

NextSession ==
    \/ SaveSessionBegin
    \/ SaveSessionRead
    \/ SaveSessionOpen
    \/ SaveSessionDump
    \/ LoadSession
    \/ ReturnToCaller

SpecSession == InitSession /\ [][NextSession]_vars

\* The services of the application, called from one thread.
InitApplication ==
    /\ NoCall
    /\ NoDeployment
    /\ InitTelemetryService
    /\ InitSessionManager({"w1"})
    /\ InitApp

NextApplication ==
    \/ WebSearch
    \/ RagQuery
    \/ IngestPdf
    \/ ProcessMessage
    \/ SaveSessionBegin
    \/ SaveSessionRead
    \/ SaveSessionOpen
    \/ SaveSessionDump
    \/ LoadSession
    \/ ReturnToCaller

SpecApp == InitApplication /\ [][NextApplication]_vars

\* SessionManager called from one thread, with the failures of the file system.
InitOneThread ==
    NoCall /\ NoDeployment /\ InitTelemetryService /\ InitSessionManager({"w1"}) /\ NoApp

SpecOneThread == InitOneThread /\ [][NextSession]_vars

\* No read, parse or write of sessions.json has failed: no except clause has
\* printed its warning.
NoFailure ==
    /\ \A w \in Writers : writers[w].warnings = <<>>
    /\ stdout = <<>>
    /\ file.t # "not json"

\* SessionManager called from one thread, while the file system does not fail
\* and sessions.json, when there is one, is a file save_session wrote.
InitNoFailure == InitOneThread /\ NoFailure

NextNoFailure ==
    \/ SaveSessionBegin /\ NoFailure'
    \/ SaveSessionRead /\ NoFailure'
    \/ SaveSessionOpen /\ NoFailure'
    \/ SaveSessionDump /\ NoFailure'
    \/ LoadSession /\ NoFailure'
    \/ ReturnToCaller /\ NoFailure'

SpecNoFailure == InitNoFailure /\ [][NextNoFailure]_vars

-----------------------------------------------------------------------------
(* Claims about the tools, checked under SpecTools. *)

AllUpper(s) == \A i \in 1..Len(s) : IsUpper(s[i])

\* The code lookup_airport and bridge_aftn_to_amhs work on.
Normalised(s) == Strip(Upper(s))

OJAA == <<"O","J","A","A">>

QueenAlia == <<"Q","u","e","e","n"," ","A","l","i","a"," ","(","J","o","r","d","a","n",")">>

\* C2: for every four-letter input that is a key of the airport table (fifteen
\* entries), lookup_airport returns exactly the associated display name ("OJAA"
\* gives "Queen Alia (Jordan)") and does not call web_search.
C2_TableHit ==
    /\ Cardinality(DOMAIN AIRPORT_DB) = 15
    /\ \A code \in DOMAIN AIRPORT_DB : Len(code) = 4
    /\ (op = "lookup_airport" /\ arg \in DOMAIN AIRPORT_DB) =>
           /\ ret = Str(AIRPORT_DB[arg])
           /\ exc = "none"
           /\ calls = <<>>
    /\ (op = "lookup_airport" /\ arg = OJAA) => ret = Str(QueenAlia)

C2_Witness == op = "lookup_airport" /\ arg = OJAA /\ ret = Str(QueenAlia)

FoundResultWords == <<"F","o","u","n","d"," ","r","e","s","u","l","t">>

\* The search failed or returned no usable content.
NoUsableContent(tool) == tool.raises \/ tool.text = <<>>

\* C3: for every four-letter input absent from the airport table,
\* lookup_airport calls web_search exactly once, and whenever that search fails
\* (the search tool raises) or returns no usable content, lookup_airport returns
\* a fallback 'not found' message rather than a 'Found result' message.
C3_FallbackWhenSearchFails ==
    (/\ op = "lookup_airport"
     /\ Len(arg) = 4
     /\ AllUpper(arg)
     /\ arg \notin DOMAIN AIRPORT_DB) =>
        /\ Len(calls) = 1
        /\ calls[1].fn = "web_search"
        /\ NoUsableContent(calls[1].tool) =>
               /\ StartsWith(ret.v, NotFoundHead)
               /\ ~Contains(ret.v, FoundResultWords)

\* C4 as stated: for any input whose length is not exactly four, lookup_airport
\* returns a validation-error string, and for any input whose length is not
\* exactly eight, bridge_aftn_to_amhs returns one; in both cases the same input
\* always gives the same string and web_search is not called.
C4_RawLengthValidated ==
    /\ (op = "lookup_airport" /\ Len(arg) # 4) =>
           /\ StartsWith(ret.v, LookupLenErrorHead)
           /\ calls = <<>>
    /\ (op = "bridge_aftn_to_amhs" /\ Len(arg) # 8) =>
           /\ ret = Str(AddressLenError)
           /\ calls = <<>>

\* C4 as amended: the length that is validated is that of the input upper-cased
\* and stripped of surrounding whitespace.  When it is not four, lookup_airport
\* returns the validation error naming the normalised code; when it is not
\* eight, bridge_aftn_to_amhs returns its validation error; the string is a
\* function of the input alone and web_search is not called.
C4_NormalisedLengthValidated ==
    /\ (op = "lookup_airport" /\ Len(Normalised(arg)) # 4) =>
           /\ ret = Str(LookupLenErrorHead \o Normalised(arg) \o Quote)
           /\ exc = "none"
           /\ calls = <<>>
    /\ (op = "bridge_aftn_to_amhs" /\ Len(Normalised(arg)) # 8) =>
           /\ ret = Str(AddressLenError)
           /\ exc = "none"
           /\ calls = <<>>

AbcLenError ==
    <<"E","r","r","o","r",":"," ","I","C","A","O"," ","c","o","d","e"," ","m","u","s",
      "t"," ","b","e"," ","e","x","a","c","t","l","y"," ","4"," ","c","h","a","r","a","c",
      "t","e","r","s","."," ","G","o","t",":"," ","'","A","B","C","'">>

C4_Witness ==
    /\ op = "lookup_airport"
    /\ arg = <<"A","B","C">>
    /\ ret = Str(AbcLenError)
    /\ calls = <<>>

\* The P= field the table gives an 8-letter address.
ExpectedPrmd(a) ==
    IF SubSeq(a, 1, 2) \in DOMAIN prmd_map THEN prmd_map[SubSeq(a, 1, 2)] ELSE UNKNOWN

HecaFields ==
    <<"/","P","=","E","G","Y","P","T","/","O","=","H","E","C","A","/","O","U","1","=","Y","F","Y","X","/">>

HecaX400 ==
    <<"/","C","=","X","X","/","A","=","I","C","A","O","/","P","=","E","G","Y","P","T",
      "/","O","=","H","E","C","A","/","O","U","1","=","Y","F","Y","X","/">>

HECAYFYX == <<"H","E","C","A","Y","F","Y","X">>

\* C5: bridge_aftn_to_amhs is total and deterministic over all 8-character
\* upper-case alphabetic inputs: for every such input a it returns, with no
\* error and no external call, exactly
\* "/C=XX/A=ICAO/P=<p>/O=<a[0..3]>/OU1=<a[4..7]>/", where <p> is the prefix
\* table's country for the first two letters of a, or UNKNOWN when they are not
\* a key; the result is a function of the input alone.
C5_BridgeFormat ==
    /\ (op = "bridge_aftn_to_amhs" /\ Len(arg) = 8 /\ AllUpper(arg)) =>
           /\ ret = Str(<<"/","C","=","X","X","/","A","=","I","C","A","O","/","P","=">> \o ExpectedPrmd(arg)
                        \o <<"/","O","=">> \o SubSeq(arg, 1, 4)
                        \o <<"/","O","U","1","=">> \o SubSeq(arg, 5, 8) \o <<"/">>)
           /\ exc = "none"
           /\ calls = <<>>
    /\ (op = "bridge_aftn_to_amhs" /\ arg = HECAYFYX) =>
           Contains(ret.v, HecaFields)

C5_Witness ==
    /\ op = "bridge_aftn_to_amhs"
    /\ arg = HECAYFYX
    /\ ret = Str(HecaX400)

\* C6: the address-prefix table has thirteen entries, each keyed by a two-letter
\* prefix, so that for each of the thirteen country names there is an
\* 8-character address whose conversion has that country in its P= field.
\* That is: no entry is out of reach of the look-up of the first two characters,
\* so whenever an 8-character address begins with a key of the table, that key
\* has two letters and the conversion has the key's country in its P= field.
C6_EveryEntryReachable ==
    /\ Cardinality(DOMAIN prmd_map) = 13
    /\ (op = "bridge_aftn_to_amhs" /\ Len(Normalised(arg)) = 8) =>
           \A key \in DOMAIN prmd_map :
               StartsWith(Normalised(arg), key) =>
                   /\ Len(key) = 2
                   /\ Contains(ret.v, <<"/","P","=">> \o prmd_map[key] \o <<"/","O","=">>)


-----------------------------------------------------------------------------
(* Claims about the deployment script, checked under SpecDeploy. *)

\* Neither --api-key nor GOOGLE_API_KEY supplies a non-empty key.
NoKeySupplied == ~Truthy(argv.api_key) /\ ~Truthy(argv.GOOGLE_API_KEY)

Exited == exit_status # None

\* C1: in main, when neither the --api-key flag nor the GOOGLE_API_KEY
\* environment variable supplies a non-empty key, the process terminates with a
\* non-zero exit status, and on that path no deployer is created, no file is
\* written, no prompt is read and no git command or network call is issued
\* before the exit.
C1_MissingKeyIsFatal ==
    NoKeySupplied =>
        /\ deployer = None
        /\ temp_dir = FALSE
        /\ files = NoFiles
        /\ \A i \in 1..Len(effects) : effects[i].kind = "print"
        /\ pc \in {"main", "exited"}
        /\ Exited => exit_status \in {PyInt(1), PyInt(2)}

C1_Witness ==
    /\ NoKeySupplied
    /\ argv.valid
    /\ argv.GOOGLE_API_KEY = Str(<<>>)
    /\ exit_status = PyInt(1)
    /\ effects = <<Printed("api_key_not_found")>>

\* C10 as stated: a missing credential is the only condition that terminates
\* the deployment abnormally: once an API key is present, no failing file write
\* or git command aborts the run with an error exit.
C10_OnlyMissingKeyIsFatal ==
    (/\ Exited
     /\ Truthy(api_key)
     /\ \A i \in 1..Len(effects) : ~effects[i].ok => effects[i].kind \in {"file", "git"})
        => exit_status = PyInt(0)

SomeStepFailed == \E i \in 1..Len(effects) : ~effects[i].ok

\* C10 as amended: a missing credential is the only condition main tests for
\* and exits on.  Once an API key is present, the run ends with exit status 0
\* exactly when no step fails; when creating the temporary directory, a file
\* write, a git command (each run with check=True) or the read of a prompt
\* fails, the exception is caught nowhere: the failed step is the last thing
\* done, the temporary directory is removed and the exit status is 1.
C10_FailedStepIsFatal ==
    /\ (Exited /\ Truthy(api_key)) =>
           /\ exit_status = IF SomeStepFailed THEN PyInt(1) ELSE PyInt(0)
           /\ temp_dir = FALSE
    /\ \A i \in 1..Len(effects) :
           ~effects[i].ok => (i = Len(effects) /\ exit_status = PyInt(1))

C10_Witness ==
    /\ Truthy(api_key)
    /\ exit_status = PyInt(1)
    /\ Len(effects) > 0
    /\ effects[Len(effects)] = Effect("git", "push -u origin main --force", FALSE)
    /\ temp_dir = FALSE

\* The steps of deploy_to_hf_spaces in the order of the claim.
StepsInOrder ==
    <<[kind |-> "file", what |-> "app.py"],
      [kind |-> "file", what |-> "requirements.txt"],
      [kind |-> "file", what |-> "README.md"],
      [kind |-> "git", what |-> "init"],
      [kind |-> "git", what |-> "checkout -b main"],
      [kind |-> "git", what |-> "add ."],
      [kind |-> "git", what |-> "commit"],
      [kind |-> "prompt", what |-> "space_repo"],
      [kind |-> "git", what |-> "remote add origin"],
      [kind |-> "git", what |-> "push -u origin main --force"],
      [kind |-> "print", what |-> "files_pushed"],
      [kind |-> "print", what |-> "next_steps"]>>

IsStep(e) == \E i \in 1..Len(StepsInOrder) :
                 e.kind = StepsInOrder[i].kind /\ e.what = StepsInOrder[i].what

\* The steps of the claim that the script has started so far, in the order in
\* which it started them.
StepsDone == SelectSeq(effects, IsStep)

\* C11: deploy_to_hf_spaces does its steps strictly in sequence: it writes
\* app.py, requirements.txt and README.md, runs git init, checkout, add and
\* commit, reads the remote URL, runs git remote add and git push, and prints
\* the final instructions; a step starts only after every step before it has
\* completed successfully, so the push comes after the three files are written
\* and committed and the final instructions after a successful push.
C11_StepsInSequence ==
    /\ Len(StepsDone) <= Len(StepsInOrder)
    /\ \A i \in 1..Len(StepsDone) :
           /\ StepsDone[i].kind = StepsInOrder[i].kind
           /\ StepsDone[i].what = StepsInOrder[i].what
           /\ i < Len(StepsDone) => StepsDone[i].ok

\* A run that pushed and printed the final instructions.
C11_Witness ==
    /\ exit_status = PyInt(0)
    /\ Len(StepsDone) = Len(StepsInOrder)
    /\ \A i \in 1..Len(StepsDone) : StepsDone[i].ok
    /\ effects[Len(effects)] = Printed("next_steps")


\* The operator answered the confirmation prompt of run_interactive_setup.
Answered == typed # None

\* The answer, lower-cased and stripped, is exactly y.
AnsweredYes == Answered /\ Strip(Lower(typed.v)) = <<"y">>

\* deploy_to_hf_spaces was entered, or one of its steps was taken.
DeploymentStarted ==
    \/ pc \notin {"main", "run_interactive_setup", "confirm", "exited"}
    \/ \E i \in 1..Len(effects) :
           \/ effects[i].kind \in {"tmpdir", "file", "git"}
           \/ effects[i] = Printed("starting")

\* C15: in interactive mode the deployment starts only if the operator's
\* answer to the confirmation prompt, lower-cased and stripped, is exactly y;
\* for every other answer, the empty one included, run_interactive_setup
\* prints that the deployment is cancelled and returns: no temporary
\* directory is made, no file is written and no git command is run.
C15_OnlyYesDeploys ==
    /\ (argv.interactive /\ DeploymentStarted) => AnsweredYes
    /\ (Answered /\ ~AnsweredYes) =>
           /\ argv.interactive
           /\ effects[Len(effects)] = Printed("cancelled")
           /\ effects[Len(effects) - 1] = Effect("prompt", "confirm", TRUE)
           /\ pc = "exited"
           /\ exit_status = PyInt(0)
           /\ ~temp_dir
           /\ files = NoFiles
           /\ ~DeploymentStarted

\* The operator pressed return at the prompt: the script printed the
\* cancellation and has ended.
C15_Witness ==
    /\ argv.interactive
    /\ typed = Str(<<>>)
    /\ effects[Len(effects)] = Printed("cancelled")
    /\ pc = "exited"
    /\ ~DeploymentStarted

-----------------------------------------------------------------------------
(* Claims about the telemetry, checked under SpecTelemetry. *)

IsPrefix(s, t) == Len(s) <= Len(t) /\ SubSeq(t, 1, Len(s)) = s

\* C7 as stated: the telemetry event log is append-only: over any sequence of
\* log_event, get_logs, get_metrics, get_stats_wrapper, clear_logs_wrapper and
\* update_status, the event list at an earlier point is a prefix of the event
\* list at a later point; no operation removes, reorders or evicts an event.
C7_AppendOnly == [][IsPrefix(events, events')]_vars

\* C7 as amended: the event list at an earlier point is a prefix of the event
\* list at a later point as long as clear_logs_wrapper has not run in between;
\* clear_logs_wrapper empties the list (and leaves the counters as they are).
\* No other operation removes, reorders or evicts an event.
C7_AppendOnlyUntilCleared ==
    [][\/ IsPrefix(events, events')
       \/ (op' = "clear_logs_wrapper" /\ events' = <<>> /\ metrics' = metrics)]_vars

C7_Witness ==
    /\ op = "clear_logs_wrapper"
    /\ events = <<>>
    /\ Len(logged) = 2
    /\ metrics.requests = 1

\* The number of log_event calls since startup with the type event_type.
Calls(event_type) == Cardinality({i \in 1..Len(logged) : logged[i] = event_type})

CountedTypes == {ERROR, REQUEST, TOOL_USE}

CountersMatch ==
    /\ metrics.requests = Calls(REQUEST)
    /\ metrics.tool_usage = Calls(TOOL_USE)
    /\ metrics.errors = Calls(ERROR)

\* C12: each of the three counters equals the number of log_event calls since
\* startup with the matching type (REQUEST, TOOL_USE, ERROR); a call with
\* another type appends an event and changes no counter; no counter ever
\* decreases; and changing the dict that get_metrics returned does not change
\* the service's counters.
C12_CountersCountCalls ==
    /\ []CountersMatch
    /\ [][/\ metrics'.requests >= metrics.requests
          /\ metrics'.tool_usage >= metrics.tool_usage
          /\ metrics'.errors >= metrics.errors
          /\ (Len(logged') > Len(logged) /\ logged'[Len(logged')] \notin CountedTypes)
                 => (metrics' = metrics /\ Len(events') = Len(events) + 1)
          /\ (op = "get_metrics" /\ ret' # ret) => metrics' = metrics]_vars

\* An INFO event and an ERROR event were logged, and the caller of get_metrics
\* has overwritten every count of the dict it was given.
C12_Witness ==
    /\ op = "get_metrics"
    /\ ret.v = [requests |-> 99, tool_usage |-> 99, errors |-> 99]
    /\ metrics = [requests |-> 0, tool_usage |-> 0, errors |-> 1]
    /\ \E i \in 1..Len(logged) : logged[i] \notin CountedTypes
    /\ Len(events) = Len(logged)

-----------------------------------------------------------------------------
(* Claims about SessionManager, checked under SpecSession. *)

\* The last two completed writes of sessions.json.
LastWrite == dumps[Len(dumps)]

WriteBefore == dumps[Len(dumps) - 1]

\* Two threads saved different sessions, and the thread that wrote last had
\* read the file before the other one wrote it.
BothReadBeforeEitherWrote ==
    /\ Len(dumps) >= 2
    /\ WriteBefore.w # LastWrite.w
    /\ WriteBefore.session_id # LastWrite.session_id
    /\ LastWrite.read_at < Len(dumps) - 1

Holds(data, write) ==
    /\ write.session_id \in DOMAIN data
    /\ data[write.session_id] = write.entry

\* C8: when two threads run save_session for different session identifiers and
\* both read sessions.json before either writes it, the file that the last
\* writer leaves holds the last writer's entry and not the entry the other
\* thread saved; no exception reaches either caller and neither is told that
\* a save failed.
C8_LostUpdate ==
    (BothReadBeforeEitherWrote /\ file.t = "json") =>
        /\ Holds(file.v, LastWrite)
        /\ ~Holds(file.v, WriteBefore)
        /\ exc = "none"
        /\ \A i \in 1..Len(WriteBefore.warnings) :
               WriteBefore.warnings[i] # CouldNotSave
        /\ \A i \in 1..Len(LastWrite.warnings) :
               LastWrite.warnings[i] # CouldNotSave

\* Both threads found no file, both saved without a warning, and the file
\* holds one session: the last writer's.
C8_Witness ==
    /\ BothReadBeforeEitherWrote
    /\ Len(dumps) = 2
    /\ file.t = "json"
    /\ DOMAIN file.v = {LastWrite.session_id}
    /\ file.v[LastWrite.session_id] = LastWrite.entry
    /\ WriteBefore.warnings = <<>>
    /\ LastWrite.warnings = <<>>
    /\ \A w \in Writers : writers[w].pc = "idle"

-----------------------------------------------------------------------------
(* Claims about SessionManager called from one thread, checked under         *)
(* SpecNoFailure and SpecOneThread.                                          *)

TheWriter == writers["w1"]

\* No call of save_session is under way.
BetweenCalls == TheWriter.pc = "idle"

AllSessionIds == SessionIds \cup {OldSessionId}

\* The completed writes of session_id.
WritesOf(session_id) == {i \in 1..Len(dumps) : dumps[i].session_id = session_id}

MostRecent(S) == CHOOSE i \in S : \A j \in S : j <= i

\* The history stored for session_id: in the file, or, while save_session has
\* the file open for writing, in the data it is about to write.
Stored(session_id) ==
    IF TheWriter.pc = "dump" THEN HistoryIn(TheWriter.data, session_id)
    ELSE IF file.t = "json" THEN HistoryIn(file.v, session_id)
    ELSE <<>>

\* sessions.json is one JSON object keyed by session identifier, each value
\* holding a timestamp and a history.
FileIsSessionObject ==
    /\ file.t = "json"
    /\ DOMAIN file.v \subseteq AllSessionIds
    /\ \A session_id \in DOMAIN file.v :
           /\ DOMAIN file.v[session_id] = {"timestamp", "history"}
           /\ file.v[session_id].timestamp \in 0..clock
           /\ file.v[session_id].history \in Seq([role : STRING, content : STRING])

\* Between calls: the last write stored the history its call was given, the
\* file holds for every saved identifier the history of its most recent
\* write, and the file, once there is one, is a session object.
SavedIsStored ==
    BetweenCalls =>
        /\ saves = Len(dumps)
        /\ Len(dumps) > 0 =>
               /\ LastWrite.session_id = TheWriter.session_id
               /\ LastWrite.entry.history = TheWriter.history
        /\ \A session_id \in AllSessionIds :
               WritesOf(session_id) # {} =>
                   /\ file.t = "json"
                   /\ HistoryIn(file.v, session_id) =
                          dumps[MostRecent(WritesOf(session_id))].entry.history
        /\ file.t # "missing" => FileIsSessionObject
        /\ saves > 0 => file.t # "missing"

\* load_session returns the stored history, and the empty list for an
\* identifier that was never saved.
LoadReturnsStored ==
    op = "load_session" =>
        /\ ret = List(Stored(arg))
        /\ exc = "none"
        /\ (WritesOf(arg) = {} /\ arg \in SessionIds) => ret = List(<<>>)
        /\ WritesOf(arg) # {} =>
               ret = List(dumps[MostRecent(WritesOf(arg))].entry.history)

\* C13: with one writer and no I/O failure, after any sequence of save_session
\* calls load_session(id) returns the history given to the most recent
\* save_session for id and the empty list for an id never saved; a
\* save_session for one id leaves the stored history of every other id
\* unchanged; and the file is one JSON object keyed by session identifier
\* whose values hold a timestamp and a history.
C13_LoadReturnsLastSaved ==
    /\ [](SavedIsStored /\ LoadReturnsStored)
    /\ [][\A session_id \in AllSessionIds :
              Stored(session_id)' # Stored(session_id) =>
                  /\ TheWriter.pc = "assign"
                  /\ TheWriter.session_id = session_id]_vars

\* Two sessions were saved, one after the other, into a file that held an
\* older session; the file holds all three, and load_session has returned the
\* history given to the first of the two calls.
C13_Witness ==
    /\ BetweenCalls
    /\ Len(dumps) = 2
    /\ dumps[1].session_id # dumps[2].session_id
    /\ dumps[1].entry.history # dumps[2].entry.history
    /\ DOMAIN file.v = AllSessionIds
    /\ op = "load_session"
    /\ arg = dumps[1].session_id
    /\ ret = List(dumps[1].entry.history)

\* The call of save_session under way, or the last one, printed warning.
Warned(warning) ==
    \E i \in 1..Len(TheWriter.warnings) : TheWriter.warnings[i] = warning

OnlySavedSession(data) ==
    /\ DOMAIN data = {TheWriter.session_id}
    /\ data[TheWriter.session_id].history = TheWriter.history

\* After a read that failed save_session goes on from data = {}, and the file
\* it then writes holds the session being saved and no other.
FailedReadDiscards ==
    Warned(CouldNotRead) =>
        /\ TheWriter.pc = "assign" => TheWriter.data = EmptyDict
        /\ TheWriter.pc \in {"dump", "idle"} => OnlySavedSession(TheWriter.data)
        /\ (BetweenCalls /\ ~Warned(CouldNotSave)) =>
               /\ file.t = "json"
               /\ OnlySavedSession(file.v)

\* A write that failed ends the call with its warning printed and nothing
\* raised.
FailedWriteReturns ==
    Warned(CouldNotSave) => (BetweenCalls /\ exc = "none")

LoadReturnsEmpty ==
    op = "load_session" =>
        /\ exc = "none"
        /\ ret.t = "list"
        /\ (file.t # "json" \/ arg \notin DOMAIN file.v \/ stdout # <<>>) =>
               ret = List(<<>>)

\* C14: when the session file cannot be read or parsed, save_session does not
\* abort: it goes on from an empty mapping and rewrites the file with only the
\* session being saved, so that every session stored before is discarded; when
\* the final write fails, save_session returns normally and signals nothing to
\* its caller; and load_session returns the empty list whenever the file is
\* missing, unreadable or lacks the identifier.
C14_FailuresAreSwallowed ==
    /\ [](FailedReadDiscards /\ FailedWriteReturns /\ LoadReturnsEmpty)
    /\ [][TheWriter.pc = "read" => TheWriter'.pc = "assign"]_vars

\* A first call saved a session; the second call could not read the file,
\* wrote it with its own session only, and load_session has returned the
\* empty list for the session of the first call.
C14_Witness ==
    /\ BetweenCalls
    /\ Len(dumps) = 2
    /\ dumps[1].warnings = <<>>
    /\ dumps[2].warnings = <<CouldNotRead>>
    /\ dumps[1].session_id # dumps[2].session_id
    /\ file.t = "json"
    /\ DOMAIN file.v = {dumps[2].session_id}
    /\ op = "load_session"
    /\ arg = dumps[1].session_id
    /\ stdout = <<>>
    /\ ret = List(<<>>)

-----------------------------------------------------------------------------
(* Claims about the services of the application, checked under SpecApp. *)

\* The external call c raised.
Failed(c) == IF c.fn = "web_search" THEN c.tool.raises ELSE c.outcome.raises

InputOf(c) == IF c.fn = "web_search" THEN c.query ELSE c.input

WarningMarkers == {<<"U+26A0">>, <<"U+274C">>, <<"W","a","r","n","i","n","g",":">>}

\* s is prefixed with a warning marker.
Marked(s) == \E marker \in WarningMarkers : StartsWith(s, marker)

\* No call that raised is made again with the same input.
NotRetried ==
    \A i \in 1..Len(calls) :
        Failed(calls[i]) =>
            \A j \in (i + 1)..Len(calls) :
                ~(calls[j].fn = calls[i].fn /\ InputOf(calls[j]) = InputOf(calls[i]))

\* The method that ran last called the library function fn, which raised.
FailedIn(method, fn) ==
    /\ op = method
    /\ \E i \in 1..Len(calls) : calls[i].fn = fn /\ Failed(calls[i])

\* C9: every failure at a boundary (the session file, the web search, the
\* vector store's query and ingestion, the model call of process_message) is
\* caught there and becomes a string prefixed with a warning marker: what
\* web_search, query, ingest_pdf and process_message return, and the line the
\* session methods print; no failed call is retried and no exception reaches
\* the caller.
C9_FailuresBecomeMarkedStrings ==
    /\ exc = "none"
    /\ NotRetried
    /\ \A i \in 1..Len(calls) :
           (calls[i].fn = "web_search" /\ Failed(calls[i])) => Marked(calls[i].out.v)
    /\ FailedIn("query", "similarity_search") => Marked(ret.v)
    /\ FailedIn("ingest_pdf", "PyPDFLoader.load") => Marked(ret.v)
    /\ FailedIn("ingest_pdf", "add_documents") => Marked(ret.v)
    /\ FailedIn("process_message", "send_message_async") => Marked(ret.v)
    /\ \A i \in 1..Len(stdout) : op = "load_session" => Marked(stdout[i])
    /\ \A w \in threads : \A i \in 1..Len(writers[w].warnings) :
           Marked(writers[w].warnings[i])

====
